---- MODULE Spec2Model ----
(***************************************************************************)
(* Media-to-message reconciliation (phase 1 of the export migrator).      *)
(*                                                                         *)
(* Strings of the program are modelled as sequences of one-character      *)
(* strings, so that substring tests, splitting and regular-expression     *)
(* searches are computed, not assumed.  An Optional[int] is a record      *)
(* [some, v]; an Optional[str] identifier uses the empty sequence for     *)
(* None (the parser never returns an empty identifier).                    *)
(***************************************************************************)
EXTENDS Integers, Sequences, FiniteSets, TLC

(***************************************************************************)
(* Bounds of the model.                                                    *)
(***************************************************************************)
MaxMsgs == 2
MaxFiles == 2
MaxIdx == 3
MaxTs == 3
MaxThr == 2
MaxParts == 4
MaxStr == 5
MaxBoxes == 2
MaxFolders == 2

(***************************************************************************)
(* Generic string helpers (Python str semantics on character sequences).  *)
(***************************************************************************)
StartsAt(s, i, pat) ==
    /\ i >= 1
    /\ i + Len(pat) - 1 <= Len(s)
    /\ SubSeq(s, i, i + Len(pat) - 1) = pat

Contains(s, pat) == \E i \in 1..Len(s) : StartsAt(s, i, pat)

\* index of the first occurrence of pat in s (0 when absent)
FirstIndex(s, pat) ==
    IF Contains(s, pat)
    THEN CHOOSE i \in 1..Len(s) :
            /\ StartsAt(s, i, pat)
            /\ \A j \in 1..(i - 1) : ~StartsAt(s, j, pat)
    ELSE 0

\* index of the last occurrence of pat in s (0 when absent)
LastIndex(s, pat) ==
    IF Contains(s, pat)
    THEN CHOOSE i \in 1..Len(s) :
            /\ StartsAt(s, i, pat)
            /\ \A j \in (i + 1)..Len(s) : ~StartsAt(s, j, pat)
    ELSE 0

EndsWith(s, pat) ==
    /\ Len(s) >= Len(pat)
    /\ SubSeq(s, Len(s) - Len(pat) + 1, Len(s)) = pat

Whitespace == {" "}

RECURSIVE LStrip(_)
LStrip(s) ==
    IF s # <<>> /\ Head(s) \in Whitespace THEN LStrip(Tail(s)) ELSE s

RECURSIVE RStrip(_)
RStrip(s) ==
    IF s # <<>> /\ s[Len(s)] \in Whitespace
    THEN RStrip(SubSeq(s, 1, Len(s) - 1))
    ELSE s

\* str.strip()
Strip(s) == RStrip(LStrip(s))

\* str.split(sep): the pieces between non-overlapping occurrences of sep
RECURSIVE SplitOn(_, _)
SplitOn(s, sep) ==
    LET i == FirstIndex(s, sep)
    IN  IF i = 0
        THEN <<s>>
        ELSE <<SubSeq(s, 1, i - 1)>> \o SplitOn(SubSeq(s, i + Len(sep), Len(s)), sep)

SeqRange(q) == {q[i] : i \in 1..Len(q)}

(***************************************************************************)
(* Literals of the source.                                                 *)
(***************************************************************************)
ThumbnailMarker == <<"t", "h", "u", "m", "b", "n", "a", "i", "l", "~">>
BlobMarker == <<"b", "~">>
MediaMarker == <<"m", "e", "d", "i", "a", "~">>
OverlayMarker == <<"o", "v", "e", "r", "l", "a", "y", "~">>
ZipMarker == MediaMarker \o <<"z", "i", "p", "-">>
UnderscoreZipMarker == <<"_">> \o ZipMarker
PipeSeparator == <<" ", "|", " ">>
Mp4Suffix == <<".", "m", "p", "4">>
Dot == <<".">>

\* the character class [A-F0-9\-]
IdChars == {"A", "B", "C", "D", "E", "F",
            "0", "1", "2", "3", "4", "5", "6", "7", "8", "9", "-"}

\* the maximal run of class characters of s starting at position i
RECURSIVE RunFrom(_, _)
RunFrom(s, i) ==
    IF i <= Len(s) /\ s[i] \in IdChars
    THEN <<s[i]>> \o RunFrom(s, i + 1)
    ELSE <<>>

\* re.search(marker + "([A-F0-9\-]+)", s): position of the leftmost match, 0 if none
SearchMarkerRun(s, markers) ==
    LET hit(i) == \E m \in markers :
                     /\ StartsAt(s, i, m)
                     /\ RunFrom(s, i + Len(m)) # <<>>
    IN  IF \E i \in 1..Len(s) : hit(i)
        THEN CHOOSE i \in 1..Len(s) : hit(i) /\ \A j \in 1..(i - 1) : ~hit(j)
        ELSE 0

NoId == <<>>

(***************************************************************************)
(* media_id_extractor.py                                                   *)
(***************************************************************************)
\* str.split('|'), trimmed and filtered as line 38 does
split_on_bare_pipe(media_ids_str) ==
    IF media_ids_str = <<>>
    THEN <<>>
    ELSE LET pieces == SplitOn(media_ids_str, <<"|">>)
         IN  SelectSeq([k \in 1..Len(pieces) |-> Strip(pieces[k])],
                       LAMBDA p : p # <<>>)

\* split_pipe_separated_ids
split_pipe_separated_ids(media_ids_str) ==
    IF media_ids_str = <<>>
    THEN <<>>
    ELSE LET pieces == SplitOn(media_ids_str, PipeSeparator)
         IN  SelectSeq([k \in 1..Len(pieces) |-> Strip(pieces[k])],
                       LAMBDA p : p # <<>>)

BlobKeepsExtension(filename) ==
    IF Contains(filename, BlobMarker)
    THEN SubSeq(filename, FirstIndex(filename, BlobMarker), Len(filename))
    ELSE NoId

\* lines 105-113: split('b~', 1) and rsplit('.', 1); NoId when the rule does
\* not apply (an applying rule returns at least 'b~')
BlobRule(filename) ==
    IF Contains(filename, BlobMarker)
    THEN LET i == FirstIndex(filename, BlobMarker)
             id_with_ext == SubSeq(filename, i + 2, Len(filename))
             d == LastIndex(id_with_ext, Dot)
             id_part == IF d = 0 THEN id_with_ext ELSE SubSeq(id_with_ext, 1, d - 1)
         IN  BlobMarker \o id_part
    ELSE NoId

\* lines 116-119: the containment test is on '_media~zip-', the search on
\* 'media~zip-' followed by the run
ZipRule(filename) ==
    LET z == IF Contains(filename, UnderscoreZipMarker)
             THEN SearchMarkerRun(filename, {ZipMarker})
             ELSE 0
    IN  IF z # 0 THEN ZipMarker \o RunFrom(filename, z + Len(ZipMarker)) ELSE NoId

\* lines 122-125: the leftmost match gives the run, the prefix is 'media'
\* whenever the filename contains 'media~'
GenericRule(filename) ==
    LET g == SearchMarkerRun(filename, {MediaMarker, OverlayMarker})
    IN  IF g # 0
        THEN LET m == IF StartsAt(filename, g, MediaMarker)
                      THEN MediaMarker ELSE OverlayMarker
                 prefix == IF Contains(filename, MediaMarker)
                           THEN MediaMarker ELSE OverlayMarker
             IN  prefix \o RunFrom(filename, g + Len(m))
        ELSE NoId

extract_generic_rule_first(filename) ==
    IF Contains(filename, ThumbnailMarker) THEN NoId
    ELSE IF GenericRule(filename) # NoId THEN GenericRule(filename)
    ELSE IF Contains(filename, BlobMarker) THEN BlobRule(filename)
    ELSE ZipRule(filename)

\* extract_media_id_from_filename
extract_media_id_from_filename(filename) ==
    IF Contains(filename, ThumbnailMarker) THEN NoId
    ELSE IF Contains(filename, BlobMarker) THEN BlobRule(filename)
    ELSE IF ZipRule(filename) # NoId THEN ZipRule(filename)
    ELSE GenericRule(filename)

(***************************************************************************)
(* Values of the program.                                                  *)
(***************************************************************************)
\* Optional[int]
NoneInt == [some |-> FALSE, v |-> 0]
SomeInt(n) == [some |-> TRUE, v |-> n]

\* bool(x) of an Optional[int]: None and 0 are falsy
TruthyInt(x) == x.some /\ x.v # 0

\* The 'Created(microseconds)' field of a message: absent/None, an integer, a
\* decimal string (v is the number it spells) or a non-numeric string.
CreatedNone == [kind |-> "none", v |-> 0]
CreatedInt(n) == [kind |-> "int", v |-> n]
CreatedStr(n) == [kind |-> "str", v |-> n]
CreatedBad == [kind |-> "bad", v |-> 0]

\* bool(field): None and the integer 0 are falsy, every non-empty string is truthy
TruthyCreated(c) ==
    CASE c.kind = "none" -> FALSE
      [] c.kind = "int" -> c.v # 0
      [] OTHER -> TRUE

\* int(field) succeeds on integers and decimal strings, raises on other strings
IntCoercible(c) == c.kind \in {"int", "str"}
IntOf(c) == c.v

\* A message record: the 'Media IDs' string (empty when absent), the
\* 'Created(microseconds)' field and the 'matched_media_files' list (empty
\* when absent).
Message(ids, created, matched) ==
    [MediaIDs |-> ids, Created |-> created, matched_media_files |-> matched]

(***************************************************************************)
(* timestamp_matcher.py                                                    *)
(***************************************************************************)
\* entries of the timestamp index are tuples (timestamp_ms, conv_id, msg_idx, message)
EntryTs(e) == e[1]

\* list.sort(key=lambda x: x[0]): stable insertion by timestamp
RECURSIVE InsertByTs(_, _)
InsertByTs(sorted, e) ==
    IF sorted = <<>> THEN <<e>>
    ELSE LET last == sorted[Len(sorted)]
         IN  IF EntryTs(last) <= EntryTs(e)
             THEN Append(sorted, e)
             ELSE Append(InsertByTs(SubSeq(sorted, 1, Len(sorted) - 1), e), last)

RECURSIVE SortByTsFrom(_, _)
SortByTsFrom(sorted, rest) ==
    IF rest = <<>> THEN sorted
    ELSE SortByTsFrom(InsertByTs(sorted, Head(rest)), Tail(rest))

UnsortedIndex(entries) == entries

SortByTs(entries) == SortByTsFrom(<<>>, entries)

IndexesEveryMessage(message) == FALSE

\* line 40: message.get('matched_media_files') is truthy for a non-empty list
AlreadyMatched(message) == message.matched_media_files # <<>>

\* the entries one conversation contributes, in list order (idx is 0-based)
ConversationEntries(conv_id, message_list) ==
    LET eligible(k) ==
            LET message == message_list[k]
            IN  /\ ~AlreadyMatched(message)
                /\ TruthyCreated(message.Created)
                /\ IntCoercible(message.Created)
        entry(k) == <<IntOf(message_list[k].Created), conv_id, k - 1, message_list[k]>>
        RECURSIVE walk(_)
        walk(k) ==
            IF k > Len(message_list) THEN <<>>
            ELSE (IF eligible(k) THEN <<entry(k)>> ELSE <<>>) \o walk(k + 1)
    IN  walk(1)

\* messages is an insertion-ordered dict: a sequence of [conv_id, message_list]
RECURSIVE AllEntries(_)
AllEntries(msgs) ==
    IF msgs = <<>> THEN <<>>
    ELSE ConversationEntries(Head(msgs).conv_id, Head(msgs).message_list)
            \o AllEntries(Tail(msgs))

\* build_millisecond_index
build_millisecond_index(msgs) == SortByTs(AllEntries(msgs))

NoMatch == [some |-> FALSE]
Abs(n) == IF n < 0 THEN -n ELSE n

\* the binary search loop: returns <<left, right>> at exit
RECURSIVE BinarySearch(_, _, _, _)
BinarySearch(index, target, left, right) ==
    IF left <= right
    THEN LET mid == (left + right) \div 2
         IN  IF EntryTs(index[mid + 1]) < target
             THEN BinarySearch(index, target, mid + 1, right)
             ELSE BinarySearch(index, target, left, mid - 1)
    ELSE <<left, right>>

RECURSIVE WalkLeftStrict(_, _, _, _)
WalkLeftStrict(index, target, threshold_ms, idx) ==
    IF idx >= 0
    THEN LET e == index[idx + 1]
             diff_ms == target - e[1]
         IN  IF diff_ms >= threshold_ms THEN <<>>
             ELSE <<[some |-> TRUE, conv_id |-> e[2], msg_idx |-> e[3],
                     msg |-> e[4], diff_ms |-> diff_ms]>>
                    \o WalkLeftStrict(index, target, threshold_ms, idx - 1)
    ELSE <<>>

\* the walk over earlier messages, from 0-based position idx downwards
RECURSIVE WalkLeft(_, _, _, _)
WalkLeft(index, target, threshold_ms, idx) ==
    IF idx >= 0
    THEN LET e == index[idx + 1]
             diff_ms == target - e[1]
         IN  IF diff_ms > threshold_ms THEN <<>>
             ELSE <<[some |-> TRUE, conv_id |-> e[2], msg_idx |-> e[3],
                     msg |-> e[4], diff_ms |-> diff_ms]>>
                    \o WalkLeft(index, target, threshold_ms, idx - 1)
    ELSE <<>>

RECURSIVE WalkRightFrom(_, _, _, _)
WalkRightFrom(index, target, threshold_ms, idx) ==
    IF idx < Len(index)
    THEN LET e == index[idx + 1]
             diff_ms == e[1] - target
         IN  IF diff_ms > threshold_ms THEN <<>>
             ELSE <<[some |-> TRUE, conv_id |-> e[2], msg_idx |-> e[3],
                     msg |-> e[4], diff_ms |-> -diff_ms]>>
                    \o WalkRightFrom(index, target, threshold_ms, idx + 1)
    ELSE <<>>

RECURSIVE WalkRightUnsigned(_, _, _, _)
WalkRightUnsigned(index, target, threshold_ms, idx) ==
    IF idx < Len(index)
    THEN LET e == index[idx + 1]
             diff_ms == e[1] - target
         IN  IF diff_ms > threshold_ms THEN <<>>
             ELSE <<[some |-> TRUE, conv_id |-> e[2], msg_idx |-> e[3],
                     msg |-> e[4], diff_ms |-> diff_ms]>>
                    \o WalkRightUnsigned(index, target, threshold_ms, idx + 1)
    ELSE <<>>

WalkRightSkipFirst(index, target, threshold_ms, idx) ==
    WalkRightFrom(index, target, threshold_ms, idx + 1)

\* the walk over later messages, from 0-based position idx upwards
RECURSIVE WalkRight(_, _, _, _)
WalkRight(index, target, threshold_ms, idx) ==
    IF idx < Len(index)
    THEN LET e == index[idx + 1]
             diff_ms == e[1] - target
         IN  IF diff_ms > threshold_ms THEN <<>>
             ELSE <<[some |-> TRUE, conv_id |-> e[2], msg_idx |-> e[3],
                     msg |-> e[4], diff_ms |-> -diff_ms]>>
                    \o WalkRight(index, target, threshold_ms, idx + 1)
    ELSE <<>>

LastCandidate(candidates) == candidates[Len(candidates)]

LastMinByAbsDiff(candidates) ==
    LET k == CHOOSE i \in 1..Len(candidates) :
                /\ \A j \in 1..Len(candidates) :
                      Abs(candidates[i].diff_ms) <= Abs(candidates[j].diff_ms)
                /\ \A j \in (i + 1)..Len(candidates) :
                      Abs(candidates[j].diff_ms) > Abs(candidates[i].diff_ms)
    IN  candidates[k]

\* min(candidates, key=lambda x: abs(x[3])): the first minimal candidate
MinByAbsDiff(candidates) ==
    LET k == CHOOSE i \in 1..Len(candidates) :
                /\ \A j \in 1..Len(candidates) :
                      Abs(candidates[i].diff_ms) <= Abs(candidates[j].diff_ms)
                /\ \A j \in 1..(i - 1) :
                      Abs(candidates[j].diff_ms) > Abs(candidates[i].diff_ms)
    IN  candidates[k]

\* find_closest_message_binary
find_closest_message_binary(mp4_timestamp_ms, timestamp_index, threshold_ms) ==
    IF timestamp_index = <<>> THEN NoMatch
    ELSE LET lr == BinarySearch(timestamp_index, mp4_timestamp_ms,
                                0, Len(timestamp_index) - 1)
             candidates ==
                 WalkLeft(timestamp_index, mp4_timestamp_ms, threshold_ms, lr[2])
                 \o WalkRight(timestamp_index, mp4_timestamp_ms, threshold_ms, lr[1])
         IN  IF candidates # <<>> THEN MinByAbsDiff(candidates) ELSE NoMatch

(***************************************************************************)
(* mp4_processor.py: each media file carries the outcome of the binary     *)
(* header parse and of the external probe on its content.                  *)
(***************************************************************************)
MediaFile(name, binary, ffprobe) == [name |-> name, binary |-> binary, ffprobe |-> ffprobe]

\* extract_mp4_timestamp (use_ffprobe_fallback left at its default, True)
extract_mp4_timestamp(f) ==
    IF ~f.binary.some THEN f.ffprobe ELSE f.binary

(***************************************************************************)
(* file_mapper.py                                                          *)
(***************************************************************************)
IsHidden(name) == StartsAt(name, 1, Dot)

\* create_media_index: the maps the scan can return.  Directory iteration
\* order is arbitrary and a later file overwrites an earlier one with the
\* same identifier, so each identifier maps to any one of the files that
\* parse to it.
create_media_index(dir) ==
    LET filenames == {f.name : f \in {g \in dir : ~IsHidden(g.name)}}
        ids == {extract_media_id_from_filename(n) : n \in filenames} \ {NoId}
    IN  {m \in [ids -> filenames] :
            \A id \in ids : extract_media_id_from_filename(m[id]) = id}

(***************************************************************************)
(* media_id_extractor.py: extract_media_ids_from_messages                  *)
(***************************************************************************)
RECURSIVE AllMessages(_)
AllMessages(msgs) ==
    IF msgs = <<>> THEN <<>>
    ELSE Head(msgs).message_list \o AllMessages(Tail(msgs))

RECURSIVE SumLen(_)
SumLen(lists) == IF lists = <<>> THEN 0 ELSE Len(Head(lists)) + SumLen(Tail(lists))

\* a collector whose total_ids counts distinct identifiers
extract_counting_distinct_ids(msgs) ==
    LET all == AllMessages(msgs)
        with_media == SelectSeq(all, LAMBDA m : m.MediaIDs # <<>>)
        pieces == [k \in 1..Len(with_media) |->
                      split_pipe_separated_ids(with_media[k].MediaIDs)]
        ids == UNION {SeqRange(pieces[k]) : k \in 1..Len(pieces)}
    IN  [all_media_ids |-> ids,
         stats |-> [total_messages |-> Len(all),
                    messages_with_media |-> Len(with_media),
                    pipe_separated |-> Len(SelectSeq(pieces, LAMBDA q : Len(q) > 1)),
                    total_ids |-> Cardinality(ids)]]

extract_media_ids_from_messages(msgs) ==
    LET all == AllMessages(msgs)
        with_media == SelectSeq(all, LAMBDA m : m.MediaIDs # <<>>)
        pieces == [k \in 1..Len(with_media) |->
                      split_pipe_separated_ids(with_media[k].MediaIDs)]
    IN  [all_media_ids |-> UNION {SeqRange(pieces[k]) : k \in 1..Len(pieces)},
         stats |-> [total_messages |-> Len(all),
                    messages_with_media |-> Len(with_media),
                    pipe_separated |-> Len(SelectSeq(pieces, LAMBDA q : Len(q) > 1)),
                    total_ids |-> SumLen(pieces)]]

(***************************************************************************)
(* Inputs of a run.                                                        *)
(***************************************************************************)
IdA == MediaMarker \o <<"A">>
IdB == MediaMarker \o <<"B">>
IdC == BlobMarker \o <<"C">>
FileA1 == <<"a", "_">> \o IdA \o Mp4Suffix
FileA2 == <<"b", "_">> \o IdA \o Mp4Suffix
FileB == <<"a", "_">> \o IdB \o Mp4Suffix
FileClip == <<"c", "l", "i", "p">> \o Mp4Suffix
FileBlob == <<"a", "_">> \o IdC \o <<".", "j", "p", "g">>

\* message timestamps and container timestamps, in milliseconds
Times == <<1000, 4000, 5000>>
TEarly == Times[1]
TMid == Times[2]
TLate == Times[3]

MessagePool ==
    { Message(IdA, CreatedInt(TEarly), <<>>),
      Message(<<>>, CreatedInt(TEarly), <<>>),
      Message(IdA \o PipeSeparator \o IdC, CreatedStr(TLate), <<>>),
      Message(<<>>, CreatedInt(TLate), <<FileClip>>),
      Message(IdB, CreatedBad, <<>>) }

FilePool ==
    { MediaFile(FileA1, SomeInt(TEarly), NoneInt),
      MediaFile(FileA2, SomeInt(TMid), NoneInt),
      MediaFile(FileB, SomeInt(TMid), NoneInt),
      MediaFile(FileB, NoneInt, NoneInt),
      MediaFile(FileClip, SomeInt(TEarly), NoneInt),
      MediaFile(FileClip, NoneInt, SomeInt(TMid)),
      MediaFile(FileClip, SomeInt(0), SomeInt(TMid)),
      MediaFile(FileBlob, NoneInt, NoneInt) }

SeqsUpTo(S, n) == UNION {[1..k -> S] : k \in 0..n}

\* the message dictionaries of a run: up to MaxMsgs messages, all in one
\* conversation or the last one in a second conversation
MessageDicts ==
    LET conv(id, list) == [conv_id |-> id, message_list |-> list]
    IN  UNION { { IF k = 0 THEN <<conv("c2", all)>>
                  ELSE IF k = Len(all) THEN <<conv("c1", all)>>
                  ELSE <<conv("c1", SubSeq(all, 1, k)), conv("c2", SubSeq(all, k + 1, Len(all)))>>
                  : k \in {Len(all) - 1, Len(all)} }
                : all \in SeqsUpTo(MessagePool, MaxMsgs) \ {<<>>} }
        \cup {<<>>}

Directories ==
    {d \in SUBSET FilePool :
        /\ Cardinality(d) <= MaxFiles
        /\ \A f, g \in d : f.name = g.name => f = g}

DefaultThreshold == 10
MsPerSecond == 1000
Thresholds == {1, DefaultThreshold}

(***************************************************************************)
(* State of one run of run_phase1.                                         *)
(***************************************************************************)
VARIABLES
    messages,             \* the loaded conversations (insertion-ordered dict)
    media_dir,            \* the files of the media directory
    timestamp_threshold,  \* seconds
    pc,                   \* position in run_phase1
    all_media_ids,
    extraction_stats,
    media_index,
    matched_ids,
    unmatched_ids,
    orphaned_files,
    stats,                \* Phase1Stats
    mp4s_without_ids,
    timestamp_index,
    pending,              \* files of the batch not yet processed
    mp4_matches,
    mapping_data,         \* the report returned by run_phase1
    query                 \* a stand-alone call of find_closest_message_binary

runVars == <<messages, media_dir, timestamp_threshold, pc, all_media_ids,
             extraction_stats, media_index, matched_ids, unmatched_ids,
             orphaned_files, stats, mp4s_without_ids, timestamp_index, pending,
             mp4_matches, mapping_data>>

vars == <<runVars, query>>

EmptyDict == [x \in {} |-> x]

\* Phase1Stats()
Phase1Stats ==
    [total_media_ids |-> 0, ids_mapped |-> 0, ids_unmapped |-> 0, unique_ids |-> 0,
     pipe_separated_count |-> 0, mp4s_processed |-> 0, mp4s_matched |-> 0,
     total_media_files |-> 0, orphaned_files |-> 0]

NoReport ==
    [media_index |-> EmptyDict, matched_ids |-> <<>>, unmatched_ids |-> <<>>,
     orphaned_files |-> <<>>, mp4_matches |-> EmptyDict, statistics |-> Phase1Stats]

NoQuery == [state |-> "idle"]

RunInit ==
    /\ pc = "start"
    /\ all_media_ids = {}
    /\ extraction_stats = [total_messages |-> 0, messages_with_media |-> 0,
                           pipe_separated |-> 0, total_ids |-> 0]
    /\ media_index = EmptyDict
    /\ matched_ids = {}
    /\ unmatched_ids = {}
    /\ orphaned_files = {}
    /\ stats = Phase1Stats
    /\ mp4s_without_ids = {}
    /\ timestamp_index = <<>>
    /\ pending = {}
    /\ mp4_matches = EmptyDict
    /\ mapping_data = NoReport

Init ==
    /\ messages \in MessageDicts
    /\ media_dir \in Directories
    /\ timestamp_threshold \in Thresholds
    /\ RunInit
    /\ query = NoQuery

(***************************************************************************)
(* orchestrator.py: run_phase1, step by step.                              *)
(***************************************************************************)
\* lines 99-117: no conversations -> early return; else T1.1
ExtractMediaIds ==
    /\ pc = "start"
    /\ IF messages = <<>>
       THEN /\ pc' = "returned_empty"
            /\ UNCHANGED <<all_media_ids, extraction_stats, stats>>
       ELSE LET r == extract_media_ids_from_messages(messages)
            IN  /\ all_media_ids' = r.all_media_ids
                /\ extraction_stats' = r.stats
                /\ stats' = [stats EXCEPT !.total_media_ids = r.stats.total_ids,
                                          !.unique_ids = Cardinality(r.all_media_ids),
                                          !.pipe_separated_count = r.stats.pipe_separated]
                /\ pc' = "t12"
    /\ UNCHANGED <<messages, media_dir, timestamp_threshold, media_index, matched_ids,
                   unmatched_ids, orphaned_files, mp4s_without_ids, timestamp_index,
                   pending, mp4_matches, mapping_data, query>>

UnmatchedIdsSwapped(ids, index) == DOMAIN index \ ids

\* lines 132-134
MatchedIds(ids, index) == ids \cap DOMAIN index
UnmatchedIds(ids, index) == ids \ DOMAIN index
OrphanedFiles(ids, index) == DOMAIN index \ ids

\* lines 123-142: T1.2 and the mapping statistics; the log line 140 divides
\* by stats.unique_ids and raises ZeroDivisionError when no message carries
\* an identifier
BuildFileIndex ==
    /\ pc = "t12"
    /\ \E index \in create_media_index(media_dir) :
          /\ media_index' = index
          /\ matched_ids' = MatchedIds(all_media_ids, index)
          /\ unmatched_ids' = UnmatchedIds(all_media_ids, index)
          /\ orphaned_files' = OrphanedFiles(all_media_ids, index)
    /\ stats' = [stats EXCEPT !.total_media_files = Cardinality(media_dir),
                              !.ids_mapped = Cardinality(matched_ids'),
                              !.ids_unmapped = Cardinality(unmatched_ids'),
                              !.orphaned_files = Cardinality(orphaned_files')]
    /\ pc' = IF stats.unique_ids = 0 THEN "raised" ELSE "t13"
    /\ UNCHANGED <<messages, media_dir, timestamp_threshold, all_media_ids,
                   extraction_stats, mp4s_without_ids, timestamp_index, pending,
                   mp4_matches, mapping_data, query>>

\* lines 150-157: the candidate pool of the timestamp pass
AllMp4s(dir) == {f \in dir : EndsWith(f.name, Mp4Suffix)}

Mp4sUnfiltered(dir, matched) == AllMp4s(dir)

Mp4sWithoutIds(dir, matched) ==
    {f \in AllMp4s(dir) :
        LET media_id == extract_media_id_from_filename(f.name)
        IN  media_id = NoId \/ media_id \notin matched}

SelectMp4s ==
    /\ pc = "t13"
    /\ mp4s_without_ids' = Mp4sWithoutIds(media_dir, matched_ids)
    /\ pc' = "t14"
    /\ UNCHANGED <<messages, media_dir, timestamp_threshold, all_media_ids,
                   extraction_stats, media_index, matched_ids, unmatched_ids,
                   orphaned_files, stats, timestamp_index, pending, mp4_matches,
                   mapping_data, query>>

\* orchestrator lines 162-164 and match_mp4_timestamps lines 146-153: the
\* batch is skipped for an empty pool; otherwise the index is built once and
\* the batch returns at once when it is empty
StartMatching ==
    /\ pc = "t14"
    /\ mp4_matches' = EmptyDict
    /\ IF mp4s_without_ids = {}
       THEN /\ pc' = "compile"
            /\ UNCHANGED <<timestamp_index, pending>>
       ELSE /\ timestamp_index' = build_millisecond_index(messages)
            /\ IF timestamp_index' = <<>>
               THEN pending' = {} /\ pc' = "matched"
               ELSE pending' = mp4s_without_ids /\ pc' = "matching"
    /\ UNCHANGED <<messages, media_dir, timestamp_threshold, all_media_ids,
                   extraction_stats, media_index, matched_ids, unmatched_ids,
                   orphaned_files, stats, mp4s_without_ids, mapping_data, query>>

\* the result of one file of the batch (lines 181-189)
MatchOne(f, index, threshold_ms) ==
    LET timestamp_ms == extract_mp4_timestamp(f)
    IN  IF ~TruthyInt(timestamp_ms) THEN NoMatch
        ELSE find_closest_message_binary(timestamp_ms.v, index, threshold_ms)

\* one iteration of the loop of match_mp4_timestamps; the order of the
\* batch is the arbitrary order of the directory listing
MatchFile ==
    /\ pc = "matching"
    /\ \E f \in pending :
          LET match == MatchOne(f, timestamp_index, timestamp_threshold * MsPerSecond)
          IN  /\ pending' = pending \ {f}
              /\ mp4_matches' =
                    IF match.some
                    THEN [n \in DOMAIN mp4_matches \cup {f.name} |->
                             IF n = f.name
                             THEN <<match.conv_id, match.msg_idx, match.diff_ms>>
                             ELSE mp4_matches[n]]
                    ELSE mp4_matches
              /\ pc' = IF pending' = {} THEN "matched" ELSE "matching"
    /\ UNCHANGED <<messages, media_dir, timestamp_threshold, all_media_ids,
                   extraction_stats, media_index, matched_ids, unmatched_ids,
                   orphaned_files, stats, mp4s_without_ids, timestamp_index,
                   mapping_data, query>>

\* lines 172-173
RecordMatchStats ==
    /\ pc = "matched"
    /\ stats' = [stats EXCEPT !.mp4s_processed = Cardinality(mp4s_without_ids),
                              !.mp4s_matched = Cardinality(DOMAIN mp4_matches)]
    /\ pc' = "compile"
    /\ UNCHANGED <<messages, media_dir, timestamp_threshold, all_media_ids,
                   extraction_stats, media_index, matched_ids, unmatched_ids,
                   orphaned_files, mp4s_without_ids, timestamp_index, pending,
                   mp4_matches, mapping_data, query>>

\* list(a_set): the elements in some order
ListsOf(S) == {q \in [1..Cardinality(S) -> S] : SeqRange(q) = S}

\* lines 180-230
CompileMapping ==
    /\ pc = "compile"
    /\ \E m \in ListsOf(matched_ids), u \in ListsOf(unmatched_ids),
          o \in ListsOf(orphaned_files) :
          mapping_data' = [media_index |-> media_index, matched_ids |-> m,
                           unmatched_ids |-> u, orphaned_files |-> o,
                           mp4_matches |-> mp4_matches, statistics |-> stats]
    /\ pc' = "done"
    /\ UNCHANGED <<messages, media_dir, timestamp_threshold, all_media_ids,
                   extraction_stats, media_index, matched_ids, unmatched_ids,
                   orphaned_files, stats, mp4s_without_ids, timestamp_index, pending,
                   mp4_matches, query>>

Next ==
    \/ ExtractMediaIds
    \/ BuildFileIndex
    \/ SelectMp4s
    \/ StartMatching
    \/ MatchFile
    \/ RecordMatchStats
    \/ CompileMapping

Spec == Init /\ [][Next]_vars

(***************************************************************************)
(* A stand-alone call of find_closest_message_binary on any sorted index.  *)
(***************************************************************************)
QueryEntries ==
    {<<ts, "c1", idx, Message(<<>>, CreatedInt(ts), <<>>)>> :
        ts \in 1..MaxTs, idx \in 0..(MaxIdx - 1)}

IsSortedByTs(index) ==
    \A i \in 1..(Len(index) - 1) : EntryTs(index[i]) <= EntryTs(index[i + 1])

\* the sorted indexes of up to MaxIdx entries, each naming another message
QueryIndexes ==
    {q \in SeqsUpTo(QueryEntries, MaxIdx) :
        /\ IsSortedByTs(q)
        /\ \A i, j \in 1..Len(q) : i # j => q[i][3] # q[j][3]}

QueryInit ==
    /\ messages = <<>>
    /\ media_dir = {}
    /\ timestamp_threshold = DefaultThreshold
    /\ RunInit
    /\ \E index \in QueryIndexes, target \in 0..(MaxTs + 1), thr \in 0..MaxThr :
          query = [state |-> "called", index |-> index, target |-> target,
                   threshold_ms |-> thr]

FindClosest ==
    /\ query.state = "called"
    /\ query' = [state |-> "returned", index |-> query.index, target |-> query.target,
                 threshold_ms |-> query.threshold_ms,
                 result |-> find_closest_message_binary(query.target, query.index,
                                                        query.threshold_ms)]
    /\ UNCHANGED runVars

QueryNext == FindClosest

SpecFind == QueryInit /\ [][QueryNext]_vars

(***************************************************************************)
(* phase2/json_updater.py: the pass that annotates the messages of an      *)
(* exported conversation, followed by a later timestamp match over the     *)
(* annotated messages.  Of the fields the pass writes only                 *)
(* 'matched_media_files' is read by phase 1.                               *)
(***************************************************************************)
\* the filenames, in list order, that lines 47-54 append for the identifiers
RECURSIVE FilesById(_, _, _)
FilesById(media_ids, media_files, index) ==
    IF media_ids = <<>> THEN <<>>
    ELSE LET media_id == Head(media_ids)
         IN  (IF media_id \in DOMAIN index /\ index[media_id] \in media_files
              THEN <<index[media_id]>> ELSE <<>>)
             \o FilesById(Tail(media_ids), media_files, index)

\* the filenames, in list order, that lines 58-64 append for the matches
RECURSIVE FilesByTimestamp(_, _)
FilesByTimestamp(matches, media_files) ==
    IF matches = <<>> THEN <<>>
    ELSE (IF Head(matches).filename \in media_files
          THEN <<Head(matches).filename>> ELSE <<>>)
         \o FilesByTimestamp(Tail(matches), media_files)

\* update_message_media_references
update_message_media_references(message, msg_idx, media_files, index, by_msg) ==
    LET by_id == FilesById(split_pipe_separated_ids(message.MediaIDs),
                           media_files, index)
        by_ts == IF msg_idx \in DOMAIN by_msg
                 THEN FilesByTimestamp(by_msg[msg_idx], media_files)
                 ELSE <<>>
        matched == by_id \o by_ts
    IN  IF matched # <<>>
        THEN [message EXCEPT !.matched_media_files = matched]
        ELSE message

\* update_conversation_json lines 108-119: the matches of one conversation,
\* grouped by message index (the report holds filename -> (conv_id, msg_idx,
\* diff_ms)); the order within a group is the iteration order of the report
ConvMp4Matches(conv_id, report_matches) ==
    LET mine == {n \in DOMAIN report_matches : report_matches[n][1] = conv_id}
        idxs == {report_matches[n][2] : n \in mine}
    IN  {g \in [idxs -> UNION {ListsOf({n \in mine : report_matches[n][2] = i})
                                  : i \in idxs}] :
            \A i \in idxs : SeqRange(g[i]) = {n \in mine : report_matches[n][2] = i}}

\* update_conversation_json lines 128-138: every message of the conversation
update_conversation_json(conv, media_files, index, report_matches, groups) ==
    [conv EXCEPT !.message_list =
        [k \in 1..Len(conv.message_list) |->
            update_message_media_references(
                conv.message_list[k], k - 1, media_files, index,
                [i \in DOMAIN groups |->
                    [j \in 1..Len(groups[i]) |->
                        [filename |-> groups[i][j],
                         diff_ms |-> report_matches[groups[i][j]][3]]]])]]

\* the media folders, identifier maps and match tables an earlier pass may hold
PassMediaFiles == SUBSET {FileA1, FileClip}
PassIndexes == {EmptyDict, [id \in {IdA} |-> FileA1]}
PassMatches ==
    {EmptyDict}
    \cup {[n \in {FileClip} |-> <<c, i, 0>>] : c \in {"c1", "c2"}, i \in 0..(MaxMsgs - 1)}

NotAnnotated == [state |-> "exported", annotated |-> {}]

AnnotateInit ==
    /\ messages \in MessageDicts
    /\ media_dir = {}
    /\ timestamp_threshold = DefaultThreshold
    /\ RunInit
    /\ query = NotAnnotated

\* process_json_updates lines 182-194: one conversation folder is updated
UpdateConversation ==
    /\ query.state = "exported"
    /\ \E c \in 1..Len(messages), media_files \in PassMediaFiles \ {{}},
          index \in PassIndexes, report_matches \in PassMatches :
          \E groups \in ConvMp4Matches(messages[c].conv_id, report_matches) :
             LET conv == update_conversation_json(messages[c], media_files, index,
                                                  report_matches, groups)
             IN  /\ messages' = [messages EXCEPT ![c] = conv]
                 /\ query' = [query EXCEPT !.annotated =
                                 @ \cup {<<conv.conv_id, k - 1>> :
                                            k \in {j \in 1..Len(conv.message_list) :
                                                      conv.message_list[j]
                                                         # messages[c].message_list[j]}}]
    /\ UNCHANGED <<media_dir, timestamp_threshold, pc, all_media_ids,
                   extraction_stats, media_index, matched_ids, unmatched_ids,
                   orphaned_files, stats, mp4s_without_ids, timestamp_index,
                   pending, mp4_matches, mapping_data>>

\* a later call of match_mp4_timestamps (lines 146-189) for one video file
\* whose container timestamp is target
LaterMatch ==
    /\ query.state = "exported"
    /\ timestamp_index' = build_millisecond_index(messages)
    /\ \E k \in 1..Len(Times) :
          query' = [state |-> "matched", annotated |-> query.annotated,
                    target |-> Times[k],
                    result |-> IF timestamp_index' = <<>> THEN NoMatch
                               ELSE find_closest_message_binary(
                                        Times[k], timestamp_index',
                                        timestamp_threshold * MsPerSecond)]
    /\ UNCHANGED <<messages, media_dir, timestamp_threshold, pc, all_media_ids,
                   extraction_stats, media_index, matched_ids, unmatched_ids,
                   orphaned_files, stats, mp4s_without_ids, pending, mp4_matches,
                   mapping_data>>

AnnotateNext ==
    \/ UpdateConversation
    \/ LaterMatch

SpecAnnotate == AnnotateInit /\ [][AnnotateNext]_vars

(***************************************************************************)
(* media_id_extractor.py: stand-alone calls of the filename parser and of  *)
(* the identifier-field splitter.                                          *)
(***************************************************************************)
\* the pieces filenames are assembled from
NameTokens ==
    {ThumbnailMarker, BlobMarker, MediaMarker, OverlayMarker,
     <<"z", "i", "p", "-">>, <<"_">>, <<"A">>, <<"x">>, Dot}

RECURSIVE Concat(_)
Concat(parts) == IF parts = <<>> THEN <<>> ELSE Head(parts) \o Concat(Tail(parts))

TokenNames == {Concat(parts) : parts \in SeqsUpTo(NameTokens, MaxParts)}

\* names that carry two markers, each followed by a run
Markers == {ThumbnailMarker, BlobMarker, MediaMarker, OverlayMarker, ZipMarker}
TwoMarkerNames ==
    {pre \o m1 \o <<"A">> \o joint \o m2 \o <<"B">> \o Mp4Suffix :
        pre \in {<<>>, <<"a", "_">>}, m1 \in Markers, m2 \in Markers,
        joint \in {<<"_">>, <<"x">>}}

\* canonical export names: <date prefix>_<identifier>.<extension>
DatePrefixes == {<<"2", "0", "2", "5", "-", "0", "7">>, <<"x">>}
Payloads == {<<"C">>, <<"E", "i", "b", "Q">>}
HexRuns == {<<"A">>, <<"2", "8", "E", "-", "5", "D">>}
Extensions == {<<"m", "p", "4">>, <<"j", "p", "e", "g">>}
CanonicalIds ==
    {BlobMarker \o payload : payload \in Payloads}
    \cup {marker \o h : marker \in {MediaMarker, OverlayMarker, ZipMarker}, h \in HexRuns}

CanonicalName(d, id, x) == d \o <<"_">> \o id \o Dot \o x

CanonicalNames ==
    {CanonicalName(d, id, x) : d \in DatePrefixes, id \in CanonicalIds, x \in Extensions}

\* identifier-field strings; None is [some |-> FALSE]
FieldChars == {"a", "b", " ", "|"}
NoneStr == [some |-> FALSE, s |-> <<>>]
SomeStr(s) == [some |-> TRUE, s |-> s]
FieldStrings == {NoneStr} \cup {SomeStr(s) : s \in SeqsUpTo(FieldChars, MaxStr)}

ExtractInit ==
    /\ messages = <<>>
    /\ media_dir = {}
    /\ timestamp_threshold = DefaultThreshold
    /\ RunInit
    /\ \/ \E filename \in TokenNames \cup TwoMarkerNames \cup CanonicalNames :
             query = [state |-> "parse", filename |-> filename]
       \/ \E arg \in FieldStrings :
             query = [state |-> "split", arg |-> arg]

ParseFilename ==
    /\ query.state = "parse"
    /\ query' = [state |-> "parsed", filename |-> query.filename,
                 result |-> extract_media_id_from_filename(query.filename)]
    /\ UNCHANGED runVars

\* line 35 returns [] for None as for the empty string
SplitIds ==
    /\ query.state = "split"
    /\ query' = [state |-> "splitted", arg |-> query.arg,
                 result |-> IF query.arg.some
                            THEN split_pipe_separated_ids(query.arg.s)
                            ELSE <<>>]
    /\ UNCHANGED runVars

ExtractNext ==
    \/ ParseFilename
    \/ SplitIds

SpecExtract == ExtractInit /\ [][ExtractNext]_vars

(***************************************************************************)
(* mp4_processor.py at the level of bytes: a file is a sequence of bytes   *)
(* (naturals below 256), offsets are 0-based as in the program.            *)
(*                                                                         *)
(* The integers of the checker have 31 bits and a sign where those of the  *)
(* program are unbounded: an unpacked value of 2^31 or more is represented *)
(* by Huge, which is beyond the end of every file of the model, and the    *)
(* offset of a seek past the end of the file is represented by the length  *)
(* of the file (every read there returns no bytes).                        *)
(***************************************************************************)
ATOM_HEADER_SIZE == 8
QUICKTIME_EPOCH_ADJUSTER == 2082844800

Huge == 2^30 - 1 + 2^30

Min(a, b) == IF a <= b THEN a ELSE b

\* f.read(n) at offset pos: up to n bytes
ReadAt(content, pos, n) == SubSeq(content, pos + 1, Min(pos + n, Len(content)))

\* struct.unpack('>I', b)[0]
UnpackU32(b) ==
    IF b[1] >= 128 THEN Huge
    ELSE ((b[1] * 256 + b[2]) * 256 + b[3]) * 256 + b[4]

\* struct.unpack('>Q', b)[0]
UnpackU64(b) ==
    IF \E i \in 1..4 : b[i] # 0 THEN Huge ELSE UnpackU32(SubSeq(b, 5, 8))

\* struct.pack('>I', n) and struct.pack('>Q', n), for n below 2^31
PackU32(n) == <<n \div 2^24, (n \div 2^16) % 256, (n \div 2^8) % 256, n % 256>>
PackU64(n) == <<0, 0, 0, 0>> \o PackU32(n)

\* b'moov', b'mvhd', b'cmov', b'free', b'ftyp'
TypeMoov == <<109, 111, 111, 118>>
TypeMvhd == <<109, 118, 104, 100>>
TypeCmov == <<99, 109, 111, 118>>
TypeFree == <<102, 114, 101, 101>>
TypeFtyp == <<102, 116, 121, 112>>

\* the outcome of a call: a returned Optional[int] or a propagated exception
Returned(x) == [kind |-> "returned", value |-> x, error |-> "none"]
Propagated(e) == [kind |-> "raised", value |-> NoneInt, error |-> e]

\* an except clause catches its class and the subclasses of it
Catches(clause, error) ==
    \/ clause = error
    \/ clause = "Exception"
    \/ clause \in {"IOError", "OSError"}
          /\ error \in {"IOError", "OSError", "FileNotFoundError", "PermissionError"}

\* every handler logs and returns None
Handle(clauses, error) ==
    IF \E clause \in clauses : Catches(clause, error)
    THEN Returned(NoneInt)
    ELSE Propagated(error)

\* lines 84-89
BinaryExcept == {"IOError", "OSError", "struct.error", "Exception"}

\* lines 133-144
FfprobeExcept == {"CalledProcessError", "TimeoutExpired", "JSONDecodeError", "Exception"}

SkipPayloadOnly(content, pos, declared) ==
    IF declared + ATOM_HEADER_SIZE >= Len(content) - pos THEN Len(content)
    ELSE pos + ATOM_HEADER_SIZE + declared

\* the offset reached from a box at pos by skipping its declared size
SkipTo(content, pos, declared) ==
    IF declared >= Len(content) - pos THEN Len(content) ELSE pos + declared

\* f.seek(extended_size - 16, 1) raises OverflowError when the offset does
\* not fit a signed 64-bit integer, that is for extended_size >= 2^63 + 16
SeekOverflows(ext) ==
    \/ ext[1] > 128
    \/ ext[1] = 128 /\ ((\E i \in 2..7 : ext[i] # 0) \/ ext[8] >= 16)

\* lines 38-55: one iteration of the box walk with the header at pos
WalkOutcomes(content, pos) ==
    LET atom_header == ReadAt(content, pos, ATOM_HEADER_SIZE)
        atom_size == UnpackU32(SubSeq(atom_header, 1, 4))
        ext == ReadAt(content, pos + ATOM_HEADER_SIZE, 8)
    IN  IF Len(atom_header) < ATOM_HEADER_SIZE
        THEN {[kind |-> "return", pos |-> pos, error |-> "none"]}
        ELSE IF SubSeq(atom_header, 5, 8) = TypeMoov
        THEN {[kind |-> "moov", pos |-> pos + ATOM_HEADER_SIZE, error |-> "none"]}
        ELSE IF atom_size = 0
        THEN {[kind |-> "return", pos |-> pos, error |-> "none"]}
        ELSE IF atom_size = 1
        THEN IF Len(ext) < 8
             THEN {[kind |-> "raise", pos |-> pos, error |-> "struct.error"]}
             ELSE IF SeekOverflows(ext)
             THEN {[kind |-> "raise", pos |-> pos, error |-> "OverflowError"]}
             ELSE {[kind |-> "next", pos |-> SkipTo(content, pos, UnpackU64(ext)),
                    error |-> "none"]}
                  \cup (IF UnpackU64(ext) = Huge
                        THEN {[kind |-> "raise", pos |-> pos, error |-> "OSError"]}
                        ELSE {})
        ELSE {[kind |-> "next", pos |-> SkipTo(content, pos, atom_size),
               error |-> "none"]}

SecondsNotMilliseconds(creation_time) == creation_time - QUICKTIME_EPOCH_ADJUSTER

\* lines 78-80
QuickTimeToUnixMs(creation_time) ==
    (creation_time - QUICKTIME_EPOCH_ADJUSTER) * MsPerSecond

\* lines 58-82: the header after moov, at pos; the record holds the creation
\* time read (if any) and the outcome
MvhdOutcome(content, pos) ==
    LET atom_header == ReadAt(content, pos, ATOM_HEADER_SIZE)
        atom_type == SubSeq(atom_header, 5, Len(atom_header))
        version == ReadAt(content, pos + ATOM_HEADER_SIZE, 1)
        width == IF version[1] = 0 THEN 4 ELSE 8
        field == ReadAt(content, pos + ATOM_HEADER_SIZE + 4, width)
        creation_time == IF width = 4 THEN UnpackU32(field) ELSE UnpackU64(field)
        none == [creation_time |-> NoneInt, outcome |-> Returned(NoneInt)]
    IN  IF atom_type = TypeCmov THEN none
        ELSE IF atom_type # TypeMvhd THEN none
        ELSE IF version = <<>>
        THEN [none EXCEPT !.outcome = Handle(BinaryExcept, "IndexError")]
        ELSE IF Len(field) < width
        THEN [none EXCEPT !.outcome = Handle(BinaryExcept, "struct.error")]
        ELSE [creation_time |-> SomeInt(creation_time),
              outcome |-> IF creation_time > 0
                          THEN Returned(SomeInt(QuickTimeToUnixMs(creation_time)))
                          ELSE Returned(NoneInt)]

\* lines 105-144: the result of the external probe.  A probe has an exit
\* ("ok", "nonzero", "timeout", "no_tool"), the kind of its standard output
\* ("malformed", "not_object", "object") and the streams it lists; a stream
\* has a codec_type and a creation_time tag ("absent" for a missing or empty
\* tag, "bad" for text that is no ISO timestamp, "iso" with the second it
\* denotes).
parse_mp4_timestamp_ffprobe(probe) ==
    LET audio == {k \in 1..Len(probe.streams) :
                     /\ probe.streams[k].codec_type = "audio"
                     /\ probe.streams[k].creation_time.kind # "absent"}
        first == CHOOSE k \in audio : \A j \in audio : k <= j
    IN  CASE probe.exit = "no_tool" -> Handle(FfprobeExcept, "FileNotFoundError")
          [] probe.exit = "timeout" -> Handle(FfprobeExcept, "TimeoutExpired")
          [] probe.exit = "nonzero" -> Handle(FfprobeExcept, "CalledProcessError")
          [] probe.stdout = "malformed" -> Handle(FfprobeExcept, "JSONDecodeError")
          [] probe.stdout = "not_object" -> Handle(FfprobeExcept, "AttributeError")
          [] audio = {} -> Returned(NoneInt)
          [] probe.streams[first].creation_time.kind = "bad" ->
                Handle(FfprobeExcept, "ValueError")
          [] OTHER ->
                Returned(SomeInt(probe.streams[first].creation_time.second * MsPerSecond))

Probe(exit, stdout, streams) == [exit |-> exit, stdout |-> stdout, streams |-> streams]
Stream(codec_type, kind, second) ==
    [codec_type |-> codec_type, creation_time |-> [kind |-> kind, second |-> second]]

StreamPool ==
    {Stream("video", "iso", 1), Stream("audio", "absent", 0),
     Stream("audio", "bad", 0), Stream("audio", "iso", 4)}

ProbeOutcomes ==
    {Probe(exit, "malformed", <<>>) : exit \in {"nonzero", "timeout", "no_tool"}}
    \cup {Probe("ok", stdout, <<>>) : stdout \in {"malformed", "not_object"}}
    \cup {Probe("ok", "object", streams) : streams \in SeqsUpTo(StreamPool, 2)}

\* a box header and the boxes files are assembled from
BoxHeader(size, type) == PackU32(size) \o type
ExtendedBox(ext) == BoxHeader(1, TypeFree) \o ext

\* creation times in seconds since 1904 (0 is "not set")
CreationTimes ==
    {0, QUICKTIME_EPOCH_ADJUSTER - 1}
    \cup {QUICKTIME_EPOCH_ADJUSTER + Times[k] \div MsPerSecond : k \in 1..2}

MoovMvhd(version, creation_time) ==
    BoxHeader(116, TypeMoov) \o BoxHeader(108, TypeMvhd) \o <<version, 0, 0, 0>>
        \o (IF version = 0 THEN PackU32(creation_time) ELSE PackU64(creation_time))

BoxPool ==
    {BoxHeader(12, TypeFtyp) \o <<105, 115, 111, 109>>,
     BoxHeader(8, TypeFree),
     BoxHeader(0, TypeFree),
     BoxHeader(4, TypeFree),
     <<255, 255, 255, 255>> \o TypeFree,
     ExtendedBox(PackU64(16)),
     ExtendedBox(PackU64(24)) \o <<0, 0, 0, 0, 0, 0, 0, 0>>,
     ExtendedBox(PackU64(8)),
     ExtendedBox(PackU64(0)),
     ExtendedBox(<<255, 255, 255, 255, 255, 255, 255, 255>>),
     ExtendedBox(<<0, 0, 0, 1, 0, 0, 0, 0>>),
     BoxHeader(116, TypeMoov),
     BoxHeader(8, TypeCmov),
     BoxHeader(108, TypeMvhd) \o <<0, 0, 0, 0>> \o PackU32(QUICKTIME_EPOCH_ADJUSTER + 1)}
    \cup {MoovMvhd(0, c) : c \in CreationTimes}
    \cup {MoovMvhd(1, QUICKTIME_EPOCH_ADJUSTER + 5)}

\* the number of bytes missing at the end of a truncated file
Cuts == {0, 1, 4, 5, 8, 13}

Truncate(content, cut) ==
    IF cut >= Len(content) THEN <<>> ELSE SubSeq(content, 1, Len(content) - cut)

Mp4Files ==
    {[kind |-> kind, content |-> <<>>] : kind \in {"missing", "unreadable"}}
    \cup {[kind |-> "file", content |-> Truncate(Concat(boxes), cut)] :
             boxes \in SeqsUpTo(BoxPool, MaxBoxes), cut \in Cuts}

Mp4Init ==
    /\ messages = <<>>
    /\ media_dir = {}
    /\ timestamp_threshold = DefaultThreshold
    /\ RunInit
    /\ \E file \in Mp4Files, use_ffprobe_fallback \in BOOLEAN :
          query = [state |-> "call", file |-> file, pos |-> 0, visited |-> {},
                   use_ffprobe_fallback |-> use_ffprobe_fallback,
                   creation_time |-> NoneInt, timestamp |-> Returned(NoneInt),
                   probed |-> FALSE, result |-> Returned(NoneInt)]

\* line 36: open() raises for a missing or unreadable file
OpenFile ==
    /\ query.state = "call"
    /\ query' =
          IF query.file.kind = "file"
          THEN [query EXCEPT !.state = "walk"]
          ELSE [query EXCEPT !.state = "primary_done",
                             !.timestamp =
                                 Handle(BinaryExcept,
                                        IF query.file.kind = "missing"
                                        THEN "FileNotFoundError"
                                        ELSE "PermissionError")]
    /\ UNCHANGED runVars

\* lines 38-55: an iteration of the walk.  The iteration depends on the
\* offset alone, so the walk is followed until it comes to an offset it has
\* already read a header at.
WalkStep ==
    /\ query.state = "walk"
    /\ query.pos \notin query.visited
    /\ \E o \in WalkOutcomes(query.file.content, query.pos) :
          query' =
             CASE o.kind = "next" ->
                    [query EXCEPT !.pos = o.pos, !.visited = @ \cup {query.pos}]
               [] o.kind = "moov" ->
                    [query EXCEPT !.state = "moov", !.pos = o.pos,
                                  !.visited = @ \cup {query.pos}]
               [] o.kind = "return" ->
                    [query EXCEPT !.state = "primary_done",
                                  !.timestamp = Returned(NoneInt)]
               [] OTHER ->
                    [query EXCEPT !.state = "primary_done",
                                  !.timestamp = Handle(BinaryExcept, o.error)]
    /\ UNCHANGED runVars

\* lines 58-82
ReadMvhd ==
    /\ query.state = "moov"
    /\ LET r == MvhdOutcome(query.file.content, query.pos)
       IN  query' = [query EXCEPT !.state = "primary_done",
                                  !.creation_time = r.creation_time,
                                  !.timestamp = r.outcome]
    /\ UNCHANGED runVars

ProbesWheneverEnabled(timestamp, use_ffprobe_fallback) == use_ffprobe_fallback

\* line 161: if timestamp is None and use_ffprobe_fallback
NeedsFallback(timestamp, use_ffprobe_fallback) ==
    ~timestamp.value.some /\ use_ffprobe_fallback

\* extract_mp4_timestamp lines 158-166, for the value of use_ffprobe_fallback
\* of the call and any behaviour of the external probe
Fallback ==
    /\ query.state = "primary_done"
    /\ \E probe \in ProbeOutcomes :
          query' =
             IF query.timestamp.kind = "raised"
             THEN [query EXCEPT !.state = "done", !.result = query.timestamp]
             ELSE IF NeedsFallback(query.timestamp, query.use_ffprobe_fallback)
             THEN [query EXCEPT !.state = "done", !.probed = TRUE,
                                !.result = parse_mp4_timestamp_ffprobe(probe)]
             ELSE [query EXCEPT !.state = "done", !.result = query.timestamp]
    /\ UNCHANGED runVars

Mp4Next ==
    \/ OpenFile
    \/ WalkStep
    \/ ReadMvhd
    \/ Fallback

SpecMp4 == Mp4Init /\ [][Mp4Next]_vars

(***************************************************************************)
(* The two operations with a worker pool: create_media_index               *)
(* (file_mapper.py) and match_mp4_timestamps (timestamp_matcher.py), each  *)
(* with its sequential and its parallel path.  The gates (use_parallel and *)
(* more than 1000 filenames, more than 10 files) only select the path; the *)
(* batches here are shorter than that, so the path is an input of a call.  *)
(*                                                                         *)
(* A call is held in query: the entries of the directory or the batch of   *)
(* files, the tasks in list order, the futures that have finished, the     *)
(* tasks whose result has been merged (in the order of merging) and the    *)
(* result map built so far.                                                *)
(***************************************************************************)
DictKeepsLatestOnly(d, key, value) == [k \in {key} |-> value]

\* d[key] = value (file_mapper.py lines 57, 67; timestamp_matcher.py lines 177, 189)
DictSet(d, key, value) ==
    [k \in DOMAIN d \cup {key} |-> IF k = key THEN value ELSE d[k]]

NoResult == [some |-> FALSE, key |-> <<>>, value |-> <<>>]
SomeResult(key, value) == [some |-> TRUE, key |-> key, value |-> value]

\* file_mapper.py lines 45-47 (and 65-66)
process_file(filename) ==
    LET media_id == extract_media_id_from_filename(filename)
    IN  IF media_id # NoId THEN SomeResult(media_id, filename) ELSE NoResult

\* timestamp_matcher.py lines 158-167 (and 181-189)
process_mp4(mp4_file, index, threshold_ms) ==
    LET match == MatchOne(mp4_file, index, threshold_ms)
    IN  IF match.some
        THEN SomeResult(mp4_file.name, <<match.conv_id, match.msg_idx, match.diff_ms>>)
        ELSE NoResult

\* if result: map[key] = value
MergeResult(map, result) ==
    IF result.some THEN DictSet(map, result.key, result.value) ELSE map

\* the sequential loops (file_mapper.py lines 63-67, timestamp_matcher.py
\* lines 180-189) over the results of the tasks in list order
RECURSIVE SequentialMap(_, _)
SequentialMap(map, results) ==
    IF results = <<>> THEN map
    ELSE SequentialMap(MergeResult(map, Head(results)), Tail(results))

\* an entry of a directory: a regular file or not (a subdirectory)
DirEntry(name, is_file) == [name |-> name, is_file |-> is_file]

ListEveryEntry(entries) == [k \in 1..Len(entries) |-> entries[k].name]

\* file_mapper.py lines 35-36: the names of the non-hidden regular files, in
\* the order iterdir() lists them
RECURSIVE ListFilenames(_)
ListFilenames(entries) ==
    IF entries = <<>> THEN <<>>
    ELSE (IF Head(entries).is_file /\ ~IsHidden(Head(entries).name)
          THEN <<Head(entries).name>> ELSE <<>>) \o ListFilenames(Tail(entries))

FileHidden == Dot \o FileA1
FileStuck == <<"s", "t", "u", "c", "k">> \o Mp4Suffix
DirNamedB == <<"d", "_">> \o IdB

EntryPool ==
    {DirEntry(FileA1, TRUE), DirEntry(FileA2, TRUE), DirEntry(FileB, TRUE),
     DirEntry(FileClip, TRUE), DirEntry(FileHidden, TRUE), DirEntry(DirNamedB, FALSE)}

\* the listings of a directory: entries with distinct names, in any order
Listings ==
    {q \in SeqsUpTo(EntryPool, MaxFiles) :
        \A i, j \in 1..Len(q) : i # j => q[i].name # q[j].name}

\* a file of a batch: the outcomes of the two parsers on it, or a content
\* on which parse_mp4_timestamp_binary never returns (an extended size of 0)
BatchFile(name, binary, ffprobe, stalls) ==
    [name |-> name, binary |-> binary, ffprobe |-> ffprobe, stalls |-> stalls]

BatchPool ==
    {BatchFile(FileA1, SomeInt(TEarly), NoneInt, FALSE),
     BatchFile(FileB, SomeInt(TMid), NoneInt, FALSE),
     BatchFile(FileB, NoneInt, NoneInt, FALSE),
     BatchFile(FileClip, NoneInt, SomeInt(TMid), FALSE),
     BatchFile(FileClip, SomeInt(0), SomeInt(TMid), FALSE),
     BatchFile(FileStuck, NoneInt, NoneInt, TRUE)}

\* the batches: files with distinct names, in any order
Batches ==
    {q \in SeqsUpTo(BatchPool, MaxFiles) :
        \A i, j \in 1..Len(q) : i # j => q[i].name # q[j].name}

\* messages that differ in the fields build_millisecond_index reads
IndexMessagePool ==
    {Message(<<>>, CreatedInt(TEarly), <<>>),
     Message(<<>>, CreatedStr(TLate), <<>>),
     Message(<<>>, CreatedInt(TLate), <<FileClip>>),
     Message(<<>>, CreatedInt(0), <<>>),
     Message(<<>>, CreatedStr(0), <<>>),
     Message(<<>>, CreatedBad, <<>>),
     Message(<<>>, CreatedNone, <<>>)}

\* up to MaxMsgs messages, all in one conversation or the last one in a second
IndexMessageDicts ==
    LET conv(id, list) == [conv_id |-> id, message_list |-> list]
    IN  UNION { { IF k = 0 THEN <<conv("c2", all)>>
                  ELSE IF k = Len(all) THEN <<conv("c1", all)>>
                  ELSE <<conv("c1", SubSeq(all, 1, k)), conv("c2", SubSeq(all, k + 1, Len(all)))>>
                  : k \in {Len(all) - 1, Len(all)} }
                : all \in SeqsUpTo(IndexMessagePool, MaxMsgs) \ {<<>>} }
        \cup {<<>>}

\* the conversations the batches are matched against
BatchMessageDicts ==
    {<<[conv_id |-> "c1",
        message_list |-> <<Message(<<>>, CreatedInt(TEarly), <<>>),
                           Message(<<>>, CreatedBad, <<>>),
                           Message(<<>>, CreatedStr(TLate), <<>>)>>]>>,
     <<[conv_id |-> "c1",
        message_list |-> <<Message(<<>>, CreatedInt(TLate), <<FileClip>>)>>]>>}

PoolCall(op, path, exists, entries, batch) ==
    [state |-> "called", op |-> op, path |-> path, exists |-> exists,
     entries |-> entries, batch |-> batch, tasks |-> <<>>, finished |-> {},
     order |-> <<>>, map |-> EmptyDict]

Paths == {"sequential", "parallel"}

PoolInit ==
    /\ media_dir = {}
    /\ RunInit
    /\ \/ /\ messages = <<>>
          /\ timestamp_threshold = DefaultThreshold
          /\ \E path \in Paths, exists \in BOOLEAN :
                \E entries \in (IF exists THEN Listings ELSE {<<>>}) :
                   query = PoolCall("create_media_index", path, exists, entries, <<>>)
       \/ /\ messages \in BatchMessageDicts
          /\ timestamp_threshold \in Thresholds
          /\ \E path \in Paths, batch \in Batches :
                query = PoolCall("match_mp4_timestamps", path, TRUE, <<>>, batch)
       \/ /\ messages \in IndexMessageDicts
          /\ timestamp_threshold = DefaultThreshold
          /\ \E path \in Paths, f \in BatchPool :
                query = PoolCall("match_mp4_timestamps", path, TRUE, <<>>, <<f>>)

\* file_mapper.py lines 30-38
ScanDirectory ==
    /\ query.state = "called"
    /\ query.op = "create_media_index"
    /\ query' = IF query.exists
                THEN [query EXCEPT !.state = "running",
                                   !.tasks = ListFilenames(query.entries)]
                ELSE [query EXCEPT !.state = "returned"]
    /\ UNCHANGED runVars

\* the messages of every conversation in reverse order
ReversedLists(msgs) ==
    [c \in DOMAIN msgs |->
        [msgs[c] EXCEPT !.message_list =
            [k \in 1..Len(@) |-> @[Len(@) + 1 - k]]]]

BuildIndexReordersMessages ==
    /\ query.state = "called"
    /\ query.op = "match_mp4_timestamps"
    /\ messages' = ReversedLists(messages)
    /\ timestamp_index' = build_millisecond_index(messages')
    /\ query' = IF timestamp_index' = <<>>
                THEN [query EXCEPT !.state = "returned"]
                ELSE [query EXCEPT !.state = "running", !.tasks = query.batch]
    /\ UNCHANGED <<media_dir, timestamp_threshold, pc, all_media_ids,
                   extraction_stats, media_index, matched_ids, unmatched_ids,
                   orphaned_files, stats, mp4s_without_ids, pending, mp4_matches,
                   mapping_data>>

\* timestamp_matcher.py lines 146-153
BuildIndex ==
    /\ query.state = "called"
    /\ query.op = "match_mp4_timestamps"
    /\ timestamp_index' = build_millisecond_index(messages)
    /\ query' = IF timestamp_index' = <<>>
                THEN [query EXCEPT !.state = "returned"]
                ELSE [query EXCEPT !.state = "running", !.tasks = query.batch]
    /\ UNCHANGED <<messages, media_dir, timestamp_threshold, pc, all_media_ids,
                   extraction_stats, media_index, matched_ids, unmatched_ids,
                   orphaned_files, stats, mp4s_without_ids, pending, mp4_matches,
                   mapping_data>>

\* the worker function never returns on this task
TaskStalls(k) ==
    query.op = "match_mp4_timestamps" /\ query.tasks[k].stalls

\* what the worker function returns for task k
TaskResult(k) ==
    IF query.op = "create_media_index" THEN process_file(query.tasks[k])
    ELSE process_mp4(query.tasks[k], timestamp_index,
                     timestamp_threshold * MsPerSecond)

\* one iteration of a sequential loop
SequentialStep ==
    /\ query.state = "running"
    /\ query.path = "sequential"
    /\ LET k == Len(query.order) + 1
       IN  /\ k <= Len(query.tasks)
           /\ ~TaskStalls(k)
           /\ query' = [query EXCEPT !.order = Append(@, k),
                                     !.map = MergeResult(@, TaskResult(k))]
    /\ UNCHANGED runVars

\* a worker of the pool completes a future
WorkerFinishes ==
    /\ query.state = "running"
    /\ query.path = "parallel"
    /\ \E k \in 1..Len(query.tasks) :
          /\ k \notin query.finished
          /\ ~TaskStalls(k)
          /\ query' = [query EXCEPT !.finished = @ \cup {k}]
    /\ UNCHANGED runVars

\* as_completed() hands a finished future to the submitting thread, which
\* merges its result (file_mapper.py lines 52-57, timestamp_matcher.py
\* lines 172-177)
MergeCompleted ==
    /\ query.state = "running"
    /\ query.path = "parallel"
    /\ \E k \in query.finished \ SeqRange(query.order) :
          query' = [query EXCEPT !.order = Append(@, k),
                                 !.map = MergeResult(@, TaskResult(k))]
    /\ UNCHANGED runVars

\* every task is merged: the map is returned
ReturnMap ==
    /\ query.state = "running"
    /\ Len(query.order) = Len(query.tasks)
    /\ query' = [query EXCEPT !.state = "returned"]
    /\ UNCHANGED runVars

PoolNext ==
    \/ ScanDirectory
    \/ BuildIndex
    \/ SequentialStep
    \/ WorkerFinishes
    \/ MergeCompleted
    \/ ReturnMap

SpecPool == PoolInit /\ [][PoolNext]_vars

(***************************************************************************)
(* phase2/media_copier.py and phase2/orphan_handler.py: the moves of the   *)
(* files of temp_media into the media folders of the conversations and     *)
(* groups and into the orphaned directory, as run_phase2 orders them.      *)
(*                                                                         *)
(* A directory is a map from the names of its regular files to their       *)
(* contents; the content of a file of temp_media is named after the file.  *)
(* No filesystem operation fails.                                          *)
(***************************************************************************)
\* the filenames of a list, each once, in the order of their first occurrence
\* (seen_files, media_copier.py lines 72, 84-86, 101-103)
RECURSIVE UniqueFiles(_, _)
UniqueFiles(filenames, seen) ==
    IF filenames = <<>> THEN <<>>
    ELSE IF Head(filenames) \in seen THEN UniqueFiles(Tail(filenames), seen)
    ELSE <<Head(filenames)>> \o UniqueFiles(Tail(filenames), seen \cup {Head(filenames)})

\* media_copier.py lines 81-83: the files the index gives for the identifiers
RECURSIVE IndexedFiles(_, _)
IndexedFiles(media_ids, index) ==
    IF media_ids = <<>> THEN <<>>
    ELSE (IF Head(media_ids) \in DOMAIN index THEN <<index[Head(media_ids)]>> ELSE <<>>)
         \o IndexedFiles(Tail(media_ids), index)

\* media_copier.py lines 75-83, over the messages of the conversation
RECURSIVE FilesOfMessages(_, _)
FilesOfMessages(message_list, index) ==
    IF message_list = <<>> THEN <<>>
    ELSE IndexedFiles(split_pipe_separated_ids(Head(message_list).MediaIDs), index)
         \o FilesOfMessages(Tail(message_list), index)

\* media_copier.py lines 89-91: the files matched by timestamp to conv_id
TimestampFiles(conv_id, report_matches) ==
    {n \in DOMAIN report_matches : report_matches[n][1] = conv_id}

\* get_media_files_for_conversation: the filenames of the returned list;
\* by_ts is the timestamp-matched files in the iteration order of the report
get_media_files_for_conversation(conv, index, by_ts) ==
    UniqueFiles(FilesOfMessages(conv.message_list, index) \o by_ts, {})

\* a directory without the file name
Unlinked(dir, name) == [n \in DOMAIN dir \ {name} |-> dir[n]]

\* copy_media_to_conversation lines 183-192 with copy_media_file: st holds
\* temp_media, the media folder and stats.errors
RECURSIVE MoveToConversation(_, _)
MoveToConversation(media_files, st) ==
    IF media_files = <<>> THEN st
    ELSE LET filename == Head(media_files)
         IN  MoveToConversation(
                Tail(media_files),
                IF filename \in DOMAIN st.temp_media
                THEN [temp_media |-> Unlinked(st.temp_media, filename),
                      media |-> DictSet(st.media, filename, st.temp_media[filename]),
                      errors |-> st.errors]
                ELSE [st EXCEPT !.errors = Append(@, filename)])

\* move_orphaned_files: shutil.move of every file, replacing a file of the
\* same name
RECURSIVE MoveOrphanedFiles(_, _)
MoveOrphanedFiles(uncopied, st) ==
    IF uncopied = <<>> THEN st
    ELSE MoveOrphanedFiles(
            Tail(uncopied),
            [temp_media |-> Unlinked(st.temp_media, Head(uncopied)),
             orphaned |-> DictSet(st.orphaned, Head(uncopied), st.temp_media[Head(uncopied)])])

\* orphan_handler.py line 110
ReportName == <<"o", "r", "p", "h", "a", "n", "e", "d", "_", "f", "i", "l", "e", "s", "_", "r", "e", "p", "o", "r", "t", ".", "j", "s", "o", "n">>
ReportContent == <<"r", "e", "p", "o", "r", "t">>

\* generate_orphaned_report lines 110, 139-140: open(report_file, 'w')
generate_orphaned_report(orphaned_dir, moved_files) ==
    DictSet(orphaned_dir, ReportName, ReportContent)

\* a conversation or group folder with its conversation.json
Folder(kind, conv_id, message_list) ==
    [kind |-> kind, conv_id |-> conv_id, message_list |-> message_list,
     media |-> EmptyDict]

FolderMessages ==
    {<<>>, <<Message(IdA, CreatedNone, <<>>)>>,
     <<Message(IdB, CreatedNone, <<>>), Message(IdA \o PipeSeparator \o IdB, CreatedNone, <<>>)>>}

FolderPool ==
    {Folder(kd[1], kd[2], message_list) :
        kd \in {<<"conversations", "c1">>, <<"conversations", "c2">>, <<"groups", "g1">>},
        message_list \in FolderMessages}

\* the folders in the order they are processed: those of conversations/
\* before those of groups/ (media_copier.py lines 219-260), each once
FolderLists ==
    {q \in SeqsUpTo(FolderPool, MaxFolders) :
        /\ \A i, j \in 1..Len(q) : i # j => q[i].conv_id # q[j].conv_id
        /\ \A i, j \in 1..Len(q) :
              (q[i].kind = "groups" /\ q[j].kind = "conversations") => j < i}

TempMediaNames == {FileA1, FileB, FileClip, ReportName}

OrganizeInit ==
    /\ messages = <<>>
    /\ media_dir = {}
    /\ timestamp_threshold = DefaultThreshold
    /\ RunInit
    /\ \E names \in SUBSET TempMediaNames, folders \in FolderLists :
          \E index \in create_media_index({[name |-> n] : n \in names}) :
             \E report_matches \in
                   {EmptyDict} \cup {[n \in {FileClip} \cap names |-> <<c, 0, 0>>] :
                                        c \in {"c1", "g1"}} :
                query = [state |-> "copying", temp_media |-> [n \in names |-> n],
                         folders |-> folders, next |-> 1,
                         orphaned |-> EmptyDict, errors |-> <<>>,
                         media_index |-> index, mp4_matches |-> report_matches,
                         initial |-> names]

\* process_all_conversations lines 221-238 (and 243-260): one folder
CopyToFolder ==
    /\ query.state = "copying"
    /\ query.next <= Len(query.folders)
    /\ LET conv == query.folders[query.next]
       IN  \E by_ts \in ListsOf(TimestampFiles(conv.conv_id, query.mp4_matches)) :
              LET media_files ==
                      get_media_files_for_conversation(conv, query.media_index, by_ts)
                  st == MoveToConversation(
                           media_files,
                           [temp_media |-> query.temp_media, media |-> conv.media,
                            errors |-> query.errors])
              IN  query' = [query EXCEPT !.temp_media = st.temp_media,
                                         !.folders[query.next].media = st.media,
                                         !.errors = st.errors,
                                         !.next = @ + 1]
    /\ UNCHANGED runVars

\* process_orphaned_files lines 208-219, after the last folder
ProcessOrphanedFiles ==
    /\ query.state = "copying"
    /\ query.next > Len(query.folders)
    /\ \E uncopied_files \in ListsOf(DOMAIN query.temp_media) :
          LET st == MoveOrphanedFiles(
                       uncopied_files,
                       [temp_media |-> query.temp_media, orphaned |-> query.orphaned])
          IN  query' = [query EXCEPT
                           !.state = "done",
                           !.temp_media = st.temp_media,
                           !.orphaned =
                               IF uncopied_files = <<>> THEN st.orphaned
                               ELSE generate_orphaned_report(st.orphaned, uncopied_files)]
    /\ UNCHANGED runVars

OrganizeNext ==
    \/ CopyToFolder
    \/ ProcessOrphanedFiles

SpecOrganize == OrganizeInit /\ [][OrganizeNext]_vars

(***************************************************************************)
(* Properties.                                                             *)
(***************************************************************************)
Terminal == pc \in {"done", "raised", "returned_empty"}

\* the message record at position idx (0-based) of conversation conv_id
MessageAt(conv_id, idx) ==
    LET c == CHOOSE k \in 1..Len(messages) : messages[k].conv_id = conv_id
    IN  messages[c].message_list[idx + 1]

FileNamed(n) == CHOOSE f \in media_dir : f.name = n

ThresholdMs == timestamp_threshold * MsPerSecond

\* C1 (as stated): in the match table of one batch no two distinct files are
\* assigned the same (conversation_id, message_index).
C1_NoSharedTarget ==
    \A f, g \in DOMAIN mp4_matches :
        f # g => <<mp4_matches[f][1], mp4_matches[f][2]>>
                    # <<mp4_matches[g][1], mp4_matches[g][2]>>

\* C1 (amended): every file of the batch has at most one match, and its
\* target is an entry of the shared index at the recorded signed distance
\* from the file's timestamp, within the threshold and with no entry
\* strictly closer; the index is not consumed, so files may share a target.
C1_EachFileMatchesClosestEntry ==
    \A n \in DOMAIN mp4_matches :
        /\ \E f \in mp4s_without_ids : f.name = n
        /\ LET t == extract_mp4_timestamp(FileNamed(n)).v
               m == mp4_matches[n]
           IN  /\ \E k \in 1..Len(timestamp_index) :
                     /\ timestamp_index[k][2] = m[1]
                     /\ timestamp_index[k][3] = m[2]
                     /\ m[3] = t - timestamp_index[k][1]
               /\ Abs(m[3]) <= ThresholdMs
               /\ \A j \in 1..Len(timestamp_index) :
                     Abs(t - timestamp_index[j][1]) >= Abs(m[3])

C1_Witness ==
    /\ pc = "done"
    /\ \E f, g \in DOMAIN mapping_data.mp4_matches :
          /\ f # g
          /\ mapping_data.mp4_matches[f][1] = mapping_data.mp4_matches[g][1]
          /\ mapping_data.mp4_matches[f][2] = mapping_data.mp4_matches[g][2]

\* C2: in run_phase1 no entry of mp4_matches points to a message whose
\* identifier field contains an ID-matched identifier.
C2_IdMatchedMessagesNotTimestampMatched ==
    pc = "done" =>
        \A n \in DOMAIN mapping_data.mp4_matches :
            LET m == mapping_data.mp4_matches[n]
            IN  SeqRange(split_pipe_separated_ids(MessageAt(m[1], m[2]).MediaIDs))
                    \cap matched_ids = {}

\* C3: one video file whose identifier no message references, one message
\* with timestamp T and no identifier field, container timestamp T + 3000 ms,
\* threshold 10 s: the run completes and reports the timestamp match with
\* |diff_ms| = 3000.
C3_Scenario ==
    /\ timestamp_threshold = DefaultThreshold
    /\ Len(messages) = 1
    /\ Len(messages[1].message_list) = 1
    /\ LET msg == messages[1].message_list[1]
       IN  /\ msg.MediaIDs = <<>>
           /\ msg.matched_media_files = <<>>
           /\ msg.Created.kind = "int"
           /\ \E f \in media_dir :
                 /\ media_dir = {f}
                 /\ EndsWith(f.name, Mp4Suffix)
                 /\ extract_media_id_from_filename(f.name) # NoId
                 /\ extract_mp4_timestamp(f) = SomeInt(msg.Created.v + 3000)

C3_EndToEndTimestampMatch ==
    (C3_Scenario /\ Terminal) =>
        /\ pc = "done"
        /\ \E f \in media_dir :
              /\ f.name \in DOMAIN mapping_data.mp4_matches
              /\ mapping_data.mp4_matches[f.name][1] = messages[1].conv_id
              /\ mapping_data.mp4_matches[f.name][2] = 0
              /\ Abs(mapping_data.mp4_matches[f.name][3]) = 3000

\* C4: a video file whose filename identifier is in matched_ids is not in
\* the candidate pool and is no key of mp4_matches; a directory with one
\* video file whose identifier a message references yields an ID match and
\* an empty pool, and the batch is not run.
C4_IdMatchedFilesExcluded ==
    /\ \A f \in AllMp4s(media_dir) :
          extract_media_id_from_filename(f.name) \in matched_ids =>
              /\ f \notin mp4s_without_ids
              /\ f \notin pending
              /\ f.name \notin DOMAIN mp4_matches
              /\ f.name \notin DOMAIN mapping_data.mp4_matches
    /\ (/\ pc = "done"
        /\ \E f \in AllMp4s(media_dir) :
              /\ media_dir = {f}
              /\ extract_media_id_from_filename(f.name) \in all_media_ids)
       => /\ \E k \in 1..Len(mapping_data.matched_ids) :
                mapping_data.matched_ids[k] \in DOMAIN mapping_data.media_index
          /\ mp4s_without_ids = {}
          /\ timestamp_index = <<>>
          /\ mapping_data.mp4_matches = EmptyDict
          /\ mapping_data.statistics.mp4s_processed = 0

C4_Witness ==
    /\ pc = "done"
    /\ \E f \in AllMp4s(media_dir) :
          /\ media_dir = {f}
          /\ extract_media_id_from_filename(f.name) \in matched_ids
    /\ mp4s_without_ids = {}

\* C5: matched_ids and unmatched_ids partition the identifier set, so
\* ids_mapped + ids_unmapped = unique_ids, and each counter is the length of
\* the reported list.
C5_IdAccounting ==
    /\ pc \notin {"start", "t12", "returned_empty"} =>
          /\ matched_ids \cup unmatched_ids = all_media_ids
          /\ matched_ids \cap unmatched_ids = {}
          /\ stats.unique_ids = Cardinality(all_media_ids)
          /\ stats.ids_mapped + stats.ids_unmapped = stats.unique_ids
    /\ pc = "done" =>
          /\ mapping_data.statistics.ids_mapped = Len(mapping_data.matched_ids)
          /\ mapping_data.statistics.ids_unmapped = Len(mapping_data.unmatched_ids)
          /\ SeqRange(mapping_data.matched_ids) \cup SeqRange(mapping_data.unmatched_ids)
                = all_media_ids

C5_Witness ==
    /\ pc = "done"
    /\ mapping_data.matched_ids # <<>>
    /\ Len(mapping_data.unmatched_ids) >= 2

\* C6: every element of the reported orphaned list is the name of a file of
\* the scanned media directory.
C6_OrphanedAreFilenames ==
    pc = "done" =>
        \A k \in 1..Len(mapping_data.orphaned_files) :
            mapping_data.orphaned_files[k] \in {f.name : f \in media_dir}

\* C7: a file recorded as timestamp-matched is not also reported as
\* orphaned, neither by its name nor by its identifier.
C7_TimestampMatchedNotOrphaned ==
    pc = "done" =>
        \A n \in DOMAIN mapping_data.mp4_matches :
            /\ n \notin SeqRange(mapping_data.orphaned_files)
            /\ extract_media_id_from_filename(n) \notin SeqRange(mapping_data.orphaned_files)

\* C8 (as stated): for any entry e of a sorted index and any threshold > 0,
\* the query for e's timestamp returns that entry with diff_ms = 0.
C8_ExactHitReturnsThatEntry ==
    (query.state = "returned" /\ query.threshold_ms > 0) =>
        \A k \in 1..Len(query.index) :
            EntryTs(query.index[k]) = query.target =>
                /\ query.result.some
                /\ query.result.conv_id = query.index[k][2]
                /\ query.result.msg_idx = query.index[k][3]
                /\ query.result.diff_ms = 0

\* C8 (amended): the query for an entry's timestamp returns, with
\* diff_ms = 0, an entry of the index carrying that timestamp: the first
\* such entry in index order, which is the entry itself when no other entry
\* shares its timestamp.
C8_ExactHitReturnsFirstEntryWithThatTimestamp ==
    (query.state = "returned" /\ query.threshold_ms > 0) =>
        \A k \in 1..Len(query.index) :
            (/\ EntryTs(query.index[k]) = query.target
             /\ \A j \in 1..(k - 1) : EntryTs(query.index[j]) # query.target)
            => /\ query.result.some
               /\ query.result.conv_id = query.index[k][2]
               /\ query.result.msg_idx = query.index[k][3]
               /\ query.result.msg = query.index[k][4]
               /\ query.result.diff_ms = 0

C8_Witness ==
    /\ query.state = "returned"
    /\ query.threshold_ms > 0
    /\ Len(query.index) = 3
    /\ EntryTs(query.index[2]) = query.target
    /\ EntryTs(query.index[1]) < query.target
    /\ EntryTs(query.index[3]) > query.target
    /\ query.result.some
    /\ query.result.msg_idx = query.index[2][3]

\* C9: the query returns null exactly when every entry is more than
\* threshold_ms away from the target (the empty index included); otherwise
\* it returns an entry within the threshold whose distance is minimal over
\* the whole index.
C9_NullIffNothingWithinThreshold ==
    query.state = "returned" =>
        LET index == query.index
            dist(k) == Abs(query.target - EntryTs(index[k]))
        IN  /\ ~query.result.some <=> \A k \in 1..Len(index) : dist(k) > query.threshold_ms
            /\ query.result.some =>
                  /\ \E k \in 1..Len(index) :
                        /\ query.result.conv_id = index[k][2]
                        /\ query.result.msg_idx = index[k][3]
                        /\ query.result.diff_ms = query.target - EntryTs(index[k])
                  /\ Abs(query.result.diff_ms) <= query.threshold_ms
                  /\ \A j \in 1..Len(index) : Abs(query.result.diff_ms) <= dist(j)

C9_Witness ==
    /\ query.state = "returned"
    /\ query.result.some
    /\ query.result.diff_ms < 0
    /\ Abs(query.result.diff_ms) = query.threshold_ms
    /\ \E k \in 1..Len(query.index) :
          Abs(query.target - EntryTs(query.index[k])) > query.threshold_ms

\* C10: the sequence returned by build_millisecond_index is ascending in
\* timestamp_ms, for the index of the batch and for any message set.
C10_IndexSorted ==
    /\ IsSortedByTs(timestamp_index)
    /\ IsSortedByTs(build_millisecond_index(messages))

C10_Witness ==
    /\ pc = "matching"
    /\ Len(timestamp_index) >= 2
    /\ ~IsSortedByTs(AllEntries(messages))

\* C11: no message carrying the matched-media-files marker is in the index
\* built by build_millisecond_index, whatever its timestamp, and a message
\* annotated by an earlier pass is never returned by a later timestamp match.
C11_FlaggedNeverIndexed ==
    /\ \A index \in {timestamp_index, build_millisecond_index(messages)} :
          \A k \in 1..Len(index) :
              /\ index[k][4].matched_media_files = <<>>
              /\ MessageAt(index[k][2], index[k][3]) = index[k][4]
    /\ (query.state = "matched" /\ query.result.some) =>
          /\ <<query.result.conv_id, query.result.msg_idx>> \notin query.annotated
          /\ MessageAt(query.result.conv_id, query.result.msg_idx)
                .matched_media_files = <<>>

C11_Witness ==
    /\ query.state = "matched"
    /\ query.result.some
    /\ \E a \in query.annotated :
          LET m == MessageAt(a[1], a[2])
          IN  /\ m.matched_media_files # <<>>
              /\ m.Created = CreatedInt(query.target)

\* the variant of an identifier is its marker prefix
Variant(id) ==
    CASE id = NoId -> "none"
      [] StartsAt(id, 1, BlobMarker) -> "Blob"
      [] StartsAt(id, 1, ZipMarker) -> "MediaZip"
      [] StartsAt(id, 1, MediaMarker) -> "Media"
      [] StartsAt(id, 1, OverlayMarker) -> "Overlay"
      [] OTHER -> "other"

\* positions of filename where marker is followed by a non-empty run
MarkerRunAt(filename, marker) ==
    {i \in 1..Len(filename) :
        /\ StartsAt(filename, i, marker)
        /\ i + Len(marker) <= Len(filename)
        /\ filename[i + Len(marker)] \in IdChars}

\* C12: rules in strict priority order: a filename with the thumbnail marker
\* yields null; otherwise one with `b~` yields a Blob identifier whatever
\* other markers it has; otherwise, when the zip rule matches, its identifier
\* is returned even where the generic rule matches too.
C12_RulePriority ==
    query.state = "parsed" =>
        LET filename == query.filename
        IN  /\ Contains(filename, ThumbnailMarker) => query.result = NoId
            /\ (~Contains(filename, ThumbnailMarker) /\ Contains(filename, BlobMarker))
                  => Variant(query.result) = "Blob"
            /\ (/\ ~Contains(filename, ThumbnailMarker)
                /\ ~Contains(filename, BlobMarker)
                /\ Contains(filename, UnderscoreZipMarker)
                /\ MarkerRunAt(filename, ZipMarker) # {})
                  => Variant(query.result) = "MediaZip"

C12_Witness ==
    /\ query.state = "parsed"
    /\ ~Contains(query.filename, ThumbnailMarker)
    /\ ~Contains(query.filename, BlobMarker)
    /\ Variant(query.result) = "MediaZip"
    /\ \E i \in MarkerRunAt(query.filename, OverlayMarker) :
          \A z \in MarkerRunAt(query.filename, ZipMarker) : i < z

\* C13: a filename without the thumbnail and blob markers that contains
\* `media~zip-` immediately followed by a non-empty run yields the MediaZip
\* identifier `media~zip-<run>` of such an occurrence, never a Media one.
C13_ZipPatternYieldsMediaZip ==
    query.state = "parsed" =>
        LET filename == query.filename
        IN  (/\ ~Contains(filename, ThumbnailMarker)
             /\ ~Contains(filename, BlobMarker)
             /\ MarkerRunAt(filename, ZipMarker) # {})
            => /\ Variant(query.result) = "MediaZip"
               /\ \E z \in MarkerRunAt(filename, ZipMarker) :
                     query.result = ZipMarker \o RunFrom(filename, z + Len(ZipMarker))

\* C14: when the generic rule applies (no thumbnail, blob or zip marker in
\* the filename), the first occurrence of `media~` or `overlay~` followed by
\* a run gives both the payload and the variant of the result.
C14_TaggedByMatchedMarker ==
    query.state = "parsed" =>
        LET filename == query.filename
            hits == MarkerRunAt(filename, MediaMarker)
                        \cup MarkerRunAt(filename, OverlayMarker)
        IN  (/\ ~Contains(filename, ThumbnailMarker)
             /\ ~Contains(filename, BlobMarker)
             /\ ~Contains(filename, ZipMarker)
             /\ hits # {})
            => LET g == CHOOSE i \in hits : \A j \in hits : i <= j
                   marker == IF StartsAt(filename, g, OverlayMarker)
                             THEN OverlayMarker ELSE MediaMarker
               IN  query.result = marker \o RunFrom(filename, g + Len(marker))

\* C15: for every canonical identifier id of the four variants, marker-free
\* prefix d and extension x, parsing d + "_" + id + "." + x returns id.
C15_CanonicalRoundTrip ==
    query.state = "parsed" =>
        \A d \in DatePrefixes, id \in CanonicalIds, x \in Extensions :
            query.filename = CanonicalName(d, id, x) => query.result = id

C15_Witness ==
    /\ query.state = "parsed"
    /\ \E d \in DatePrefixes, id \in CanonicalIds, x \in Extensions :
          /\ query.filename = CanonicalName(d, id, x)
          /\ Variant(id) = "Blob"
          /\ Len(id) > 3
          /\ query.result = id

\* t is s without its leading and trailing whitespace
IsTrimOf(t, s) ==
    \E i \in 1..(Len(s) + 1), j \in 0..Len(s) :
        /\ t = SubSeq(s, i, j)
        /\ \A k \in 1..Len(s) : (k < i \/ k > j) => s[k] \in Whitespace
        /\ t # <<>> => (t[1] \notin Whitespace /\ t[Len(t)] \notin Whitespace)

\* the start positions of the separators of s: the occurrences of " | " that
\* no earlier separator overlaps
Separators(s) ==
    CHOOSE C \in SUBSET (1..Len(s)) :
        \A o \in 1..Len(s) :
            o \in C <=> /\ StartsAt(s, o, PipeSeparator)
                        /\ \A c \in C : c < o => c + Len(PipeSeparator) <= o

\* the k-th segment of s (k = 1 .. number of separators + 1) as <<from, to>>
SegmentBounds(s, k) ==
    LET C == Separators(s)
        nth(n) == CHOOSE c \in C : Cardinality({d \in C : d < c}) = n - 1
    IN  <<IF k = 1 THEN 1 ELSE nth(k - 1) + Len(PipeSeparator),
          IF k = Cardinality(C) + 1 THEN Len(s) ELSE nth(k) - 1>>

Segment(s, k) == SubSeq(s, SegmentBounds(s, k)[1], SegmentBounds(s, k)[2])

\* result lists, in order, the trimmed non-empty segments of s
IsTrimmedSegments(result, s) ==
    LET n == Cardinality(Separators(s)) + 1
        kept == {k \in 1..n : \E c \in 1..Len(Segment(s, k)) :
                                Segment(s, k)[c] \notin Whitespace}
        nthKept(j) == CHOOSE k \in kept : Cardinality({i \in kept : i < k}) = j - 1
    IN  /\ Len(result) = Cardinality(kept)
        /\ \A j \in 1..Len(result) : IsTrimOf(result[j], Segment(s, nthKept(j)))

\* C16 (as stated): the result is the trimmed non-empty segments delimited
\* by " | ", in order; the empty string and null give the empty list and a
\* string without the separator gives a one-element list.
C16_SplitAsStated ==
    query.state = "splitted" =>
        IF ~query.arg.some \/ query.arg.s = <<>>
        THEN query.result = <<>>
        ELSE /\ IsTrimmedSegments(query.result, query.arg.s)
             /\ ~Contains(query.arg.s, PipeSeparator) => Len(query.result) = 1

\* C16 (amended): as stated, except that a string without the separator
\* gives the one-element list of its trimmed text only when it is not all
\* whitespace, and the empty list when it is.
C16_SplitTrimmedNonEmptySegments ==
    query.state = "splitted" =>
        IF ~query.arg.some \/ query.arg.s = <<>>
        THEN query.result = <<>>
        ELSE /\ IsTrimmedSegments(query.result, query.arg.s)
             /\ ~Contains(query.arg.s, PipeSeparator) =>
                   IF \A c \in 1..Len(query.arg.s) : query.arg.s[c] \in Whitespace
                   THEN query.result = <<>>
                   ELSE /\ Len(query.result) = 1
                        /\ IsTrimOf(query.result[1], query.arg.s)

C16_Witness ==
    /\ query.state = "splitted"
    /\ query.arg.some
    /\ Len(query.result) = 2
    /\ Cardinality(Separators(query.arg.s)) = 1
    /\ Contains(query.result[2], <<"|">>)

\* C17: after extract_media_ids_from_messages the returned set is the union
\* of the split pieces of all messages; total_messages counts every message,
\* messages_with_media those with a non-empty identifier field,
\* pipe_separated those whose field splits into more than one piece and
\* total_ids the pieces without deduplication; so pipe_separated <=
\* messages_with_media <= total_messages and |set| <= total_ids.
C17_ExtractionStats ==
    pc \notin {"start", "returned_empty"} =>
        LET lists == [c \in 1..Len(messages) |-> messages[c].message_list]
            msgsAt == UNION {{<<c, k>> : k \in 1..Len(lists[c])} : c \in 1..Len(messages)}
            field(p) == lists[p[1]][p[2]].MediaIDs
            pieces(p) == split_pipe_separated_ids(field(p))
            st == extraction_stats
        IN  /\ all_media_ids = UNION {SeqRange(pieces(p)) : p \in msgsAt}
            /\ st.total_messages = Cardinality(msgsAt)
            /\ st.messages_with_media = Cardinality({p \in msgsAt : field(p) # <<>>})
            /\ st.pipe_separated = Cardinality({p \in msgsAt : Len(pieces(p)) > 1})
            /\ st.total_ids =
                  Cardinality(UNION {{<<p, j>> : j \in 1..Len(pieces(p))} : p \in msgsAt})
            /\ st.pipe_separated <= st.messages_with_media
            /\ st.messages_with_media <= st.total_messages
            /\ Cardinality(all_media_ids) <= st.total_ids

C17_Witness ==
    /\ pc = "t12"
    /\ extraction_stats.pipe_separated = 1
    /\ extraction_stats.messages_with_media = 2
    /\ extraction_stats.total_ids = 3
    /\ Cardinality(all_media_ids) = 2

\* the bytes of the file that hold the creation time the parser read
CreationTimeField ==
    LET version == query.file.content[query.pos + ATOM_HEADER_SIZE + 1]
    IN  ReadAt(query.file.content, query.pos + ATOM_HEADER_SIZE + 4,
               IF version = 0 THEN 4 ELSE 8)

\* C18: for every positive creation time c (seconds since 1904) read from
\* the container, the parser returns (c - 2,082,844,800) * 1000, and
\* dividing that by 1000 and adding 2,082,844,800 gives c back.
C18_EpochRoundTrip ==
    (/\ query.state \in {"primary_done", "done"}
     /\ query.creation_time.some
     /\ query.creation_time.v > 0)
    => LET c == query.creation_time.v
           value == query.timestamp.value
       IN  /\ CreationTimeField \in {PackU32(c), PackU64(c)}
           /\ query.timestamp.kind = "returned"
           /\ value.some
           /\ value.v = (c - 2082844800) * 1000
           /\ value.v \div 1000 + 2082844800 = c

C18_Witness ==
    /\ query.state = "primary_done"
    /\ query.creation_time.some
    /\ query.creation_time.v > 0
    /\ query.creation_time.v < QUICKTIME_EPOCH_ADJUSTER
    /\ query.timestamp.value.v < 0
    /\ query.visited # {0}

\* the walk is back at an offset it has already read a header at
Stalled == query.state = "walk" /\ query.pos \in query.visited

\* C19: the box walk ends after finitely many steps on every finite file:
\* it never comes back to an offset at which it has already read a header
\* (an iteration is a function of the offset, so a repeated offset repeats
\* for ever).
C19_WalkTerminates == ~Stalled

\* C20: extract_mp4_timestamp never propagates an error: on every file the
\* primary parser yields an integer or null, and on every outcome of the
\* probe so does the fallback.
C20_YieldsIntOrNull ==
    /\ query.state \in {"primary_done", "done"} => query.timestamp.kind = "returned"
    /\ query.state = "done" => query.result.kind = "returned"
    /\ query.state \notin {"primary_done", "done"} => ~Stalled

\* C21: the probe is run only after the primary parse has returned, and it
\* is run iff the primary parse returned null and the fallback is enabled;
\* a non-null value of the primary parse is the result, with no probe run.
C21_ProbeIffPrimaryNull ==
    /\ query.state \in {"call", "walk", "moov", "primary_done"} => ~query.probed
    /\ query.state = "done" =>
          /\ query.timestamp.kind = "returned"
          /\ query.probed <=> (~query.timestamp.value.some /\ query.use_ffprobe_fallback)
          /\ query.timestamp.value.some =>
                (query.result = query.timestamp /\ ~query.probed)
          /\ ~query.probed => query.result = query.timestamp

\* one call ended with the value of the primary parse and no probe, and the
\* fallback was enabled
C21_Witness ==
    /\ query.state = "done"
    /\ query.use_ffprobe_fallback
    /\ query.timestamp.value.some
    /\ query.result = query.timestamp
    /\ ~query.probed

\* the results of all tasks of the call, in list order
AllTaskResults == [k \in 1..Len(query.tasks) |-> TaskResult(k)]

\* no two filenames of the call parse to the same identifier
DistinctIds ==
    \A i, j \in 1..Len(query.tasks) :
       (i # j /\ TaskResult(i).some /\ TaskResult(j).some)
          => TaskResult(i).key # TaskResult(j).key

\* C22: whatever the order in which the workers complete, the map the
\* parallel path returns is the map the sequential loop gives on the same
\* list, for create_media_index when no two filenames parse to the same
\* identifier and for match_mp4_timestamps on files with distinct names.
C22_ParallelEqualsSequential ==
    (/\ query.state = "returned"
     /\ query.path = "parallel"
     /\ query.op = "create_media_index" => DistinctIds)
    => query.map = SequentialMap(EmptyDict, AllTaskResults)

\* a parallel call returned a map of two entries merged against list order
C22_Witness ==
    /\ query.state = "returned"
    /\ query.path = "parallel"
    /\ query.op = "match_mp4_timestamps"
    /\ Len(query.order) = 2
    /\ query.order[1] > query.order[2]
    /\ Cardinality(DOMAIN query.map) = 2

\* the message record at 0-based position idx of conversation conv_id
RecordAt(msgs, conv_id, idx) ==
    LET c == CHOOSE k \in 1..Len(msgs) : msgs[k].conv_id = conv_id
    IN  msgs[c].message_list[idx + 1]

\* C23: in match_mp4_timestamps no step changes a message or the order of
\* the messages; the index is written by the first step alone, which builds
\* it whole and sorted, with every entry holding the record of the message
\* it names, before any file is queried; no later step changes it.
C23_BatchIsReadOnly ==
    [][/\ messages' = messages
       /\ query.state # "called" => timestamp_index' = timestamp_index
       /\ (query.op = "match_mp4_timestamps" /\ query.state = "called") =>
             /\ query.order = <<>> /\ query.finished = {}
             /\ timestamp_index' = build_millisecond_index(messages)
             /\ IsSortedByTs(timestamp_index')
             /\ \A k \in 1..Len(timestamp_index') :
                   LET e == timestamp_index'[k]
                   IN  e[4] = RecordAt(messages, e[2], e[3])]_vars

\* a file has been queried on an index whose order differs from that of the
\* messages
C23_Witness ==
    /\ query.op = "match_mp4_timestamps"
    /\ query.path = "parallel"
    /\ query.order # <<>>
    /\ Len(timestamp_index) >= 2
    /\ timestamp_index # AllEntries(messages)
    /\ timestamp_index = build_millisecond_index(messages)

\* the sequential loop waits for ever on a file whose parse never returns,
\* with a file behind it that has a match when it is processed alone
BatchBlocked ==
    /\ query.state = "running"
    /\ query.op = "match_mp4_timestamps"
    /\ query.path = "sequential"
    /\ LET k == Len(query.order) + 1
       IN  /\ k <= Len(query.tasks)
           /\ TaskStalls(k)
           /\ \E j \in (k + 1)..Len(query.tasks) :
                 ~TaskStalls(j) /\ TaskResult(j).some

\* what match_mp4_timestamps returns for the batch of the one file f
MatchedAlone(f) ==
    SequentialMap(EmptyDict,
                  <<process_mp4(f, timestamp_index, timestamp_threshold * MsPerSecond)>>)

\* the returned map holds, for each file of the batch, what the file gets alone
DegradesPerItem ==
    (query.state = "returned" /\ query.op = "match_mp4_timestamps"
        /\ timestamp_index # <<>>)
    => \A k \in 1..Len(query.tasks) :
          LET f == query.tasks[k]
              ts == extract_mp4_timestamp(f)
              alone == MatchedAlone(f)
          IN  /\ f.name \in DOMAIN query.map <=> f.name \in DOMAIN alone
              /\ f.name \in DOMAIN alone => query.map[f.name] = alone[f.name]
              /\ ~ts.some => f.name \notin DOMAIN query.map
              /\ (\A e \in SeqRange(timestamp_index) :
                     Abs(ts.v - EntryTs(e)) > timestamp_threshold * MsPerSecond)
                 => f.name \notin DOMAIN query.map

\* C24: in both paths of match_mp4_timestamps a file without a timestamp or
\* without a message within the threshold is absent from the result, every
\* other file is matched as it would be alone, and no file keeps the batch
\* from processing the others.
C24_PerItemFailuresDegrade == DegradesPerItem /\ ~BatchBlocked

\* the positions of the index that hold the entry of message i (1-based) of
\* conversation c (position in messages)
EntriesOf(c, i) ==
    LET message == messages[c].message_list[i]
    IN  {k \in 1..Len(timestamp_index) :
            timestamp_index[k] =
               <<IntOf(message.Created), messages[c].conv_id, i - 1, message>>}

\* not flagged as matched; timestamp present, integer-coercible and non-zero
EligibleAsStated(message) ==
    /\ message.matched_media_files = <<>>
    /\ message.Created.kind \in {"int", "str"}
    /\ IntOf(message.Created) # 0

\* C25: the index built by build_millisecond_index holds one entry
\* (int(timestamp), c, i, message) for each message that is not flagged and
\* has a present, non-zero, integer-coercible timestamp, at its position i
\* in the conversation list, and no other entry.
C25_IndexMatchesEligible ==
    (query.op = "match_mp4_timestamps" /\ query.state # "called")
    => /\ \A c \in 1..Len(messages) : \A i \in 1..Len(messages[c].message_list) :
             Cardinality(EntriesOf(c, i)) =
                IF EligibleAsStated(messages[c].message_list[i]) THEN 1 ELSE 0
       /\ \A k \in 1..Len(timestamp_index) :
             \E c \in 1..Len(messages) : \E i \in 1..Len(messages[c].message_list) :
                k \in EntriesOf(c, i)

\* the entries of the queried index that name the message of the result
ResultEntries ==
    {k \in 1..Len(query.index) :
        /\ query.index[k][2] = query.result.conv_id
        /\ query.index[k][3] = query.result.msg_idx
        /\ query.index[k][4] = query.result.msg}

\* C26: a non-null result of find_closest_message_binary names one entry of
\* the index and carries diff_ms = target - timestamp of that entry:
\* positive when the file is later than the message, negative when it is
\* earlier, zero on an exact hit, with |diff_ms| within the threshold.
C26_SignConvention ==
    (query.state = "returned" /\ query.result.some)
    => /\ ResultEntries # {}
       /\ \A k \in ResultEntries :
             LET ts == EntryTs(query.index[k])
                 diff_ms == query.result.diff_ms
             IN  /\ diff_ms = query.target - ts
                 /\ diff_ms > 0 <=> query.target > ts
                 /\ diff_ms < 0 <=> query.target < ts
                 /\ diff_ms = 0 <=> query.target = ts
                 /\ Abs(diff_ms) <= query.threshold_ms

\* a file matched to a later message
C26_Witness ==
    /\ query.state = "returned"
    /\ query.result.some
    /\ query.result.diff_ms < 0
    /\ \E k \in ResultEntries : EntryTs(query.index[k]) > query.target
    /\ Len(query.index) >= 2

\* the distance of the entries of the queried index nearest to the target
NearestDistance ==
    CHOOSE d \in 0..(MaxTs + 1) :
       /\ \E k \in 1..Len(query.index) : Abs(query.target - EntryTs(query.index[k])) = d
       /\ \A k \in 1..Len(query.index) : Abs(query.target - EntryTs(query.index[k])) >= d

\* the nearest entries lie on both sides of the target, within the threshold
TiedAcrossTarget ==
    /\ query.index # <<>>
    /\ NearestDistance > 0
    /\ NearestDistance <= query.threshold_ms
    /\ \E k \in 1..Len(query.index) :
          EntryTs(query.index[k]) = query.target - NearestDistance
    /\ \E k \in 1..Len(query.index) :
          EntryTs(query.index[k]) = query.target + NearestDistance

\* the positions of the index that hold the target's exact timestamp
ExactHits == {k \in 1..Len(query.index) : EntryTs(query.index[k]) = query.target}

\* C29: when the nearest entries are an earlier and a later one at the same
\* distance, within the threshold, find_closest_message_binary returns an
\* earlier one (positive diff); when several entries have the timestamp of
\* the target it returns the first of them in index order.
C29_TieBreaks ==
    query.state = "returned"
    => /\ TiedAcrossTarget =>
             /\ query.result.some
             /\ query.result.diff_ms = NearestDistance
             /\ \E k \in ResultEntries :
                   EntryTs(query.index[k]) = query.target - NearestDistance
       /\ Cardinality(ExactHits) >= 2 =>
             LET first == CHOOSE k \in ExactHits : \A j \in ExactHits : k <= j
             IN  /\ query.result.some
                 /\ query.result.diff_ms = 0
                 /\ ResultEntries = {first}

\* an earlier and a later entry at the same distance from the target
C29_Witness ==
    /\ query.state = "returned"
    /\ TiedAcrossTarget
    /\ query.result.diff_ms > 0

\* the names of the non-hidden regular files among the entries of the call
RegularVisibleNames ==
    {query.entries[k].name : k \in {j \in 1..Len(query.entries) :
        query.entries[j].is_file /\ ~IsHidden(query.entries[j].name)}}

\* the file processed last among those whose name parses to id
LastProcessed(id) ==
    LET hits == {n \in 1..Len(query.order) :
                    extract_media_id_from_filename(query.tasks[query.order[n]]) = id}
        last == CHOOSE n \in hits : \A m \in hits : m <= n
    IN  query.tasks[query.order[last]]

\* C27: for an existing directory create_media_index returns a map whose
\* keys are exactly the non-null identifiers parsed from the names of the
\* non-hidden regular files, each key mapped to a file that parses to it,
\* the one processed last when several do; for a missing directory it
\* returns the empty map.
C27_IndexOfDirectory ==
    (query.state = "returned" /\ query.op = "create_media_index")
    => IF query.exists
       THEN /\ DOMAIN query.map =
                  {extract_media_id_from_filename(n) : n \in RegularVisibleNames} \ {NoId}
            /\ \A id \in DOMAIN query.map :
                  /\ query.map[id] \in RegularVisibleNames
                  /\ extract_media_id_from_filename(query.map[id]) = id
                  /\ query.map[id] = LastProcessed(id)
       ELSE query.map = EmptyDict

\* two files of one identifier, merged by the pool against list order
C27_Witness ==
    /\ query.state = "returned"
    /\ query.op = "create_media_index"
    /\ query.exists
    /\ query.path = "parallel"
    /\ Len(query.tasks) = 2
    /\ extract_media_id_from_filename(query.tasks[1]) = IdA
    /\ extract_media_id_from_filename(query.tasks[2]) = IdA
    /\ query.order = <<2, 1>>
    /\ query.map[IdA] = query.tasks[1]

\* the bytes of content at offsets from..(from + n - 1), fewer at the end
BytesAt(content, from, n) ==
    [k \in 1..(IF from + n <= Len(content) THEN n
               ELSE IF from < Len(content) THEN Len(content) - from ELSE 0)
        |-> content[from + k]]

\* a box header is complete at offset pos
HeaderAt(content, pos) == Len(content) - pos >= 8

\* the declared total size of the box at pos: the 32-bit field, or the 64-bit
\* extended size when the field is 1 (0 when the extended size is cut off)
DeclaredSize(content, pos) ==
    LET field == UnpackU32(BytesAt(content, pos, 4))
        ext == BytesAt(content, pos + 8, 8)
    IN  IF field # 1 THEN field
        ELSE IF Len(ext) < 8 THEN 0
        ELSE UnpackU64(ext)

\* the offset just behind the first moov header the walk from pos comes to,
\* -1 when the stream ends or a box of declared size 0 comes first
RECURSIVE MoovBehind(_, _)
MoovBehind(content, pos) ==
    IF ~HeaderAt(content, pos) THEN -1
    ELSE IF BytesAt(content, pos + 4, 4) = TypeMoov THEN pos + 8
    ELSE LET size == DeclaredSize(content, pos)
         IN  IF size = 0 \/ size >= Len(content) - pos THEN -1
             ELSE MoovBehind(content, pos + size)

\* the header at pos is an mvhd header followed by a positive creation time,
\* of 32 bits for version 0 and of 64 bits otherwise
MvhdWithPositiveTime(content, pos) ==
    /\ HeaderAt(content, pos)
    /\ BytesAt(content, pos + 4, 4) = TypeMvhd
    /\ Len(content) > pos + 8
    /\ LET width == IF content[pos + 9] = 0 THEN 4 ELSE 8
           field == BytesAt(content, pos + 12, width)
       IN  Len(field) = width /\ \E k \in 1..width : field[k] # 0

\* C28: the walk of parse_mp4_timestamp_binary starts at offset 0 and goes
\* from the header of a skipped box of declared size s to the header at box
\* start + s; the parser returns a value iff the walk comes to a moov header
\* before the end of the stream and before a box of declared size 0, the
\* header right behind it is an mvhd header, and the creation time is
\* positive.
C28_BoxWalk ==
    [][/\ query.state = "call" => query.pos = 0
       /\ (query.state = "walk" /\ query'.state = "walk") =>
             LET size == DeclaredSize(query.file.content, query.pos)
                 len == Len(query.file.content)
             IN  /\ BytesAt(query.file.content, query.pos + 4, 4) # TypeMoov
                 /\ query'.pos = IF size >= len - query.pos THEN len
                                 ELSE query.pos + size
       /\ (query.state \in {"walk", "moov"} /\ query'.state = "primary_done") =>
             LET behind == MoovBehind(query.file.content, 0)
             IN  query'.timestamp.value.some
                    <=> (behind # -1 /\ MvhdWithPositiveTime(query.file.content, behind))
      ]_vars

\* a value was returned after the walk had skipped a box
C28_Witness ==
    /\ query.state = "primary_done"
    /\ query.timestamp.value.some
    /\ Cardinality(query.visited) >= 2
    /\ MoovBehind(query.file.content, 0) > 8

\* the destinations that hold the file name of temp_media with its content:
\* indexes of folders, and 0 for the orphaned directory
DestinationsOf(name) ==
    {k \in 1..Len(query.folders) :
        name \in DOMAIN query.folders[k].media /\ query.folders[k].media[name] = name}
    \cup (IF name \in DOMAIN query.orphaned /\ query.orphaned[name] = name
          THEN {0} ELSE {})

\* the folders whose conversation refers to the file, by identifier or by
\* timestamp match
Referrers(name) ==
    {k \in 1..Len(query.folders) :
        \/ name \in SeqRange(FilesOfMessages(query.folders[k].message_list,
                                             query.media_index))
        \/ name \in TimestampFiles(query.folders[k].conv_id, query.mp4_matches)}

\* every file that was in temp_media is in exactly one destination
FilesConserved ==
    query.state = "done"
    => /\ DOMAIN query.temp_media = {}
       /\ \A name \in query.initial : Cardinality(DestinationsOf(name)) = 1

\* a file referred to by several folders is in the first of them, and each
\* later attempt has left an error
FirstReferrerWins ==
    query.state = "done"
    => \A name \in query.initial :
          Referrers(name) # {} =>
             LET first == CHOOSE k \in Referrers(name) : \A j \in Referrers(name) : k <= j
             IN  /\ DestinationsOf(name) = {first}
                 /\ Cardinality({e \in 1..Len(query.errors) : query.errors[e] = name})
                       = Cardinality(Referrers(name)) - 1

\* C30: after process_all_conversations and process_orphaned_files every
\* regular file that was in temp_media is in exactly one destination (one
\* media folder or the orphaned directory) and temp_media is empty; a file
\* referred to by several conversations is in the first one processed and
\* every later attempt is a recorded error.
C30_FileConservation == FilesConserved /\ FirstReferrerWins

====
